---- MODULE Spec2Model ----
(***************************************************************************)
(* Model of the meshtastic_tracker integration: the MQTT message handlers  *)
(* of MeshtasticTrackerCoordinator, the packet pipeline of pb_data.py and  *)
(* proto.py (dedup cache, decryption, payload interpretation), the merge / *)
(* debounce aggregator and the device tracker entity that listens to it.   *)
(*                                                                         *)
(* Representation choices:                                                 *)
(*  - a 32-bit unsigned value (packet id, node number) is the tuple of its *)
(*    four bytes, most significant first, so the whole range 0 .. 2^32-1   *)
(*    is representable;                                                    *)
(*  - a Python dict is a function whose domain is its key set;             *)
(*  - a Python float is the rational [num, den];                           *)
(*  - an Optional result is [some |-> FALSE] or [some |-> TRUE, val |-> v];*)
(*  - time is the event loop's monotonic clock in whole seconds.           *)
(***************************************************************************)
EXTENDS Integers, Sequences, FiniteSets, TLC

(***************************************************************************)
(* Bounds of the model                                                     *)
(***************************************************************************)
MaxTime == 3        \* the clock stops advancing here (unless a timer is due)
MaxTasks == 3       \* debounce tasks that are not done at one time
MaxTimeDedup == 11  \* clock bound of the dedup specification (beyond the TTL)
Headroom == 0       \* free slots of the dedup cache when the dedup specification starts

(***************************************************************************)
(* Program constants                                                       *)
(***************************************************************************)
maxsize == 100             \* TTLCache(maxsize=100, ...)
ttl == 10                  \* TTLCache(..., ttl=10)
MaxPolls == 10             \* for _ in range(10)
TEXT_MESSAGE_APP == 1      \* portnums_pb2 values of the dispatch table
POSITION_APP == 3
NODEINFO_APP == 4
TELEMETRY_APP == 67
NEIGHBORINFO_APP == 71

(***************************************************************************)
(* Values                                                                  *)
(***************************************************************************)
None == [some |-> FALSE]
Some(v) == [some |-> TRUE, val |-> v]

Rat(n, d) == [num |-> n, den |-> d]
RatLt(a, b) == a.num * b.den < b.num * a.den

U32(b3, b2, b1, b0) == <<b3, b2, b1, b0>>
U32Zero == U32(0, 0, 0, 0)
U32Max == U32(255, 255, 255, 255)

EmptyDict == [k \in {} |-> 0]

\* {**a, **b}
DictMerge(a, b) ==
    [k \in DOMAIN a \cup DOMAIN b |-> IF k \in DOMAIN b THEN b[k] ELSE a[k]]

\* d.get(k, {}) for a dict of dicts
DictGet(d, k) == IF k \in DOMAIN d THEN d[k] ELSE EmptyDict

\* d[k] = v on a dict
DictSet(d, k, v) == [x \in DOMAIN d \cup {k} |-> IF x = k THEN v ELSE d[x]]

(***************************************************************************)
(* f"!{n:08x}": the canonical node id of a 32-bit node number              *)
(***************************************************************************)
HexChars ==
    <<"0", "1", "2", "3", "4", "5", "6", "7",
      "8", "9", "a", "b", "c", "d", "e", "f">>

HexByte(b) == HexChars[(b \div 16) + 1] \o HexChars[(b % 16) + 1]

FormatNodeId(n) ==
    "!" \o HexByte(n[1]) \o HexByte(n[2]) \o HexByte(n[3]) \o HexByte(n[4])

(***************************************************************************)
(* pb_data.seen_ids: TTLCache(maxsize=100, ttl=10).  The cache is the      *)
(* sequence of its entries in insertion order, each with the time at which *)
(* it expires.  Only the two operations packet_receive uses are modelled:  *)
(* "key in cache" and "cache[key] = True".                                 *)
(***************************************************************************)
CacheKeys(c) == {c[i].key : i \in 1..Len(c)}

\* faulty variant: membership that forgets the expiry time
LooseContains(c, k, t) == \E i \in 1..Len(c) : c[i].key = k

\* TTLCache.__contains__: present and timer() < expires; no reordering
CacheContains(c, k, t) == \E i \in 1..Len(c) : c[i].key = k /\ t < c[i].expires

\* TTLCache.expire(time): drop every entry with not (time < expires)
IsLive(e, t) == t < e.expires
CacheExpire(c, t) == SelectSeq(c, LAMBDA e : IsLive(e, t))

\* faulty variant: eviction of the entry inserted last
RECURSIVE EvictNewest(_)
EvictNewest(c) ==
    IF Len(c) + 1 > maxsize THEN EvictNewest(SubSeq(c, 1, Len(c) - 1)) ELSE c

\* Cache.__setitem__: while currsize + size > maxsize: popitem()
\* (popitem removes the first key in insertion order)
RECURSIVE CacheMakeRoom(_)
CacheMakeRoom(c) ==
    IF Len(c) + 1 > maxsize THEN CacheMakeRoom(Tail(c)) ELSE c

\* TTLCache.__setitem__(key, True) at time t
CacheEntry(k, t) == [key |-> k, expires |-> t + ttl]

CacheSetItem(c, k, t) ==
    LET live == CacheExpire(c, t)
        others == SelectSeq(live, LAMBDA e : e.key # k)
        room == IF k \in CacheKeys(live) THEN others ELSE CacheMakeRoom(live)
    IN  Append(room, CacheEntry(k, t))

(***************************************************************************)
(* proto.py: keys and the cipher.  A base64 key string decodes to a byte   *)
(* sequence; the strings the model uses are tabulated.  The cipher is      *)
(* ideal: a ciphertext is the plaintext sealed under the sender's key      *)
(* bytes (the nonce is derived from the packet's own id and source on both *)
(* sides); decrypting with other key bytes yields garbage, which the       *)
(* protobuf parser either rejects or reads as a Data message of an         *)
(* unrelated port.                                                         *)
(***************************************************************************)
DEFAULT_ENC_KEY == "1PG7OiApB1nwvP+rz05pAQ=="
DefaultKeyBytes ==
    <<212, 241, 187, 58, 32, 41, 7, 89, 240, 188, 255, 171, 207, 78, 105, 1>>
OtherKeyBytes ==
    <<0, 1, 2, 3, 4, 5, 6, 7, 8, 9, 10, 11, 12, 13, 14, 15>>

\* base64.b64decode(key_b64.replace("_", "/").replace("-", "+"))
B64Decode(s) ==
    CASE s = "AQ==" -> Some(<<1>>)
      [] s = "Ag==" -> Some(<<2>>)
      [] s = DEFAULT_ENC_KEY -> Some(DefaultKeyBytes)
      [] s = "AAECAwQFBgcICQoLDA0ODw==" -> Some(OtherKeyBytes)
      [] OTHER -> None

\* faulty variant: the decoded key without the sentinel substitution
RawKeyBytes(key_b64) == B64Decode(key_b64)

\* the sentinel substitution of build_encrypted_envelope / try_encrypt_envelope
KeyBytes(key_b64) ==
    LET dec == B64Decode(key_b64)
    IN  IF ~dec.some THEN None
        ELSE IF Len(dec.val) = 1 /\ dec.val[1] = 1
             THEN B64Decode(DEFAULT_ENC_KEY)
             ELSE dec

\* algorithms.AES(key_bytes) accepts 128, 192 and 256 bit keys
AesKeyOk(bytes) == Len(bytes) \in {16, 24, 32}

GarbageOutcomes == {"decode_error", "parsed"}
GarbageData == [portnum |-> 0, payload |-> [ok |-> TRUE, val |-> ""]]

\* try_encrypt_envelope(envelope, key_b64): None when it raises, otherwise the
\* Data message copied into envelope.packet.decoded
try_encrypt_envelope(env, key_b64, garbage) ==
    LET key == KeyBytes(key_b64)
    IN  IF ~key.some \/ ~AesKeyOk(key.val) THEN None
        ELSE IF key.val = env.encrypted.key THEN Some(env.encrypted.plain)
        ELSE IF garbage = "decode_error" THEN None
        ELSE Some(GarbageData)

(***************************************************************************)
(* proto.py: the payload interpreter                                       *)
(***************************************************************************)
\* faulty variant: the boundary value of ground_track is scaled too
ScaleTrackFrom1000(obj) ==
    LET gt == obj.ground_track
        ground_track == IF gt >= 1000 THEN Rat(gt, 1000) ELSE Rat(gt, 1)
        val == obj.PDOP
        pdop == IF val > 50 THEN Rat(val, 10) ELSE Rat(val, 1)
    IN  [type |-> "position",
         fields |-> [latitude_i |-> obj.latitude_i,
                     longitude_i |-> obj.longitude_i,
                     altitude |-> obj.altitude,
                     ground_speed |-> obj.ground_speed,
                     sats_in_view |-> obj.sats_in_view,
                     precision_bits |-> obj.precision_bits,
                     ground_track |-> ground_track,
                     PDOP |-> pdop]]

\* faulty variant: PDOP is scaled on the scale of ground_track
ScalePdopAsTrack(obj) ==
    LET gt == obj.ground_track
        ground_track == IF gt > 1000 THEN Rat(gt, 1000) ELSE Rat(gt, 1)
        val == obj.PDOP
        pdop == IF val > 1000 THEN Rat(val, 1000) ELSE Rat(val, 1)
    IN  [type |-> "position",
         fields |-> [latitude_i |-> obj.latitude_i,
                     longitude_i |-> obj.longitude_i,
                     altitude |-> obj.altitude,
                     ground_speed |-> obj.ground_speed,
                     sats_in_view |-> obj.sats_in_view,
                     precision_bits |-> obj.precision_bits,
                     ground_track |-> ground_track,
                     PDOP |-> pdop]]

\* _as_position(obj, envelope)
_as_position(obj) ==
    LET gt == obj.ground_track
        ground_track == IF gt > 1000 THEN Rat(gt, 1000) ELSE Rat(gt, 1)
        val == obj.PDOP
        pdop == IF val > 50 THEN Rat(val, 10) ELSE Rat(val, 1)
    IN  [type |-> "position",
         fields |-> [latitude_i |-> obj.latitude_i,
                     longitude_i |-> obj.longitude_i,
                     altitude |-> obj.altitude,
                     ground_speed |-> obj.ground_speed,
                     sats_in_view |-> obj.sats_in_view,
                     precision_bits |-> obj.precision_bits,
                     ground_track |-> ground_track,
                     PDOP |-> pdop]]

\* _as_telemetry(obj, envelope); the type None is the empty string
_as_telemetry(obj) ==
    IF obj.variant = "device_metrics"
    THEN [type |-> "device_metrics",
          fields |-> [battery_level |-> obj.metrics.battery_level,
                      voltage |-> obj.metrics.voltage,
                      channel_utilization |-> obj.metrics.channel_utilization,
                      air_util_tx |-> obj.metrics.air_util_tx]]
    ELSE IF obj.variant = "environment_metrics"
    THEN [type |-> "environment_metrics",
          fields |-> [temperature |-> obj.metrics.temperature,
                      relative_humidity |-> obj.metrics.relative_humidity,
                      barometric_pressure |-> obj.metrics.barometric_pressure,
                      gas_resistance |-> obj.metrics.gas_resistance]]
    ELSE [type |-> "", fields |-> EmptyDict]

\* _as_node_info(obj, envelope)
_as_node_info(obj) ==
    [type |-> "nodeinfo",
     fields |-> [id |-> obj.id,
                 shortname |-> obj.short_name,
                 longname |-> obj.long_name]]

\* _as_neighbor_info(obj, envelope)
_as_neighbor_info(obj) ==
    [type |-> "neighborinfo",
     fields |-> [neighbors |-> obj.neighbors,
                 neighbors_count |-> Len(obj.neighbors)]]

\* _as_text_message(obj, envelope)
_as_text_message(obj, env) ==
    [type |-> "text_message",
     fields |-> [text |-> obj, rx_time |-> env.rx_time]]

\* the keys of _converters
ConverterPorts ==
    {POSITION_APP, TELEMETRY_APP, NODEINFO_APP, NEIGHBORINFO_APP,
     TEXT_MESSAGE_APP}

Normalize(portnum, obj, env) ==
    CASE portnum = POSITION_APP -> _as_position(obj)
      [] portnum = TELEMETRY_APP -> _as_telemetry(obj)
      [] portnum = NODEINFO_APP -> _as_node_info(obj)
      [] portnum = NEIGHBORINFO_APP -> _as_neighbor_info(obj)
      [] portnum = TEXT_MESSAGE_APP -> _as_text_message(obj, env)

\* faulty variant: the hop count as an unsigned difference, wrapped to the
\* width of a byte
WrappedHops(env) ==
    [from |-> env.from,
     rx_snr |-> env.rx_snr,
     rx_rssi |-> env.rx_rssi,
     hops_taken |-> (env.hop_start - env.hop_limit) % 256,
     sender |-> env.gateway_id,
     packet_id |-> env.id,
     rx_time |-> env.rx_time]

\* the envelope-level metadata of convert_envelope_to_json
EnvelopeMeta(env) ==
    [from |-> env.from,
     rx_snr |-> env.rx_snr,
     rx_rssi |-> env.rx_rssi,
     hops_taken |-> env.hop_start - env.hop_limit,
     sender |-> env.gateway_id,
     packet_id |-> env.id,
     rx_time |-> env.rx_time]

\* faulty variant: a port without converter is an error
ConvertKnownOnly(env, decoded) ==
    IF decoded.portnum \in ConverterPorts /\ decoded.payload.ok
    THEN LET conv == Normalize(decoded.portnum, decoded.payload.val, env)
         IN  Some(DictMerge(DictMerge(EnvelopeMeta(env), [type |-> conv.type]),
                            conv.fields))
    ELSE None

\* convert_envelope_to_json(envelope) with envelope.packet.decoded = decoded:
\* None when decoding the payload raises, otherwise the result dict
convert_envelope_to_json(env, decoded) ==
    LET result == EnvelopeMeta(env)
    IN  IF decoded.portnum \in ConverterPorts
        THEN IF ~decoded.payload.ok THEN None
             ELSE LET conv == Normalize(decoded.portnum, decoded.payload.val, env)
                  IN  IF conv.type # "" /\ conv.fields # EmptyDict
                      THEN Some(DictMerge(DictMerge(result, [type |-> conv.type]),
                                          conv.fields))
                      ELSE Some(result)
        ELSE Some(result)

(***************************************************************************)
(* pb_data.packet_receive(msg, key) against the cache c at time t.         *)
(* ret is the returned dict or None, seen the cache afterwards and stage   *)
(* the last step of the pipeline the packet reached.                       *)
(***************************************************************************)
RxOutcome(ret, seen, stage) == [ret |-> ret, seen |-> seen, stage |-> stage]

\* the stages of a packet that passed the dedup check
AdmittedStages == {"decrypt_failed", "convert_failed", "converted"}

\* faulty variant: the test without "not packet_id"
DedupOnly(c, id, t) == CacheContains(c, id, t)

\* "not packet_id or packet_id in seen_ids"
Rejected(c, id, t) == id = U32Zero \/ CacheContains(c, id, t)

\* faulty variant: the id recorded only once the packet was converted
RecordLate(c, env, key, garbage, t) ==
    LET dec == IF env.variant = "encrypted"
               THEN try_encrypt_envelope(env, key, garbage)
               ELSE Some(env.decoded)
    IN  IF ~dec.some THEN RxOutcome(None, c, "decrypt_failed")
        ELSE LET obj == convert_envelope_to_json(env, dec.val)
             IN  IF ~obj.some THEN RxOutcome(None, c, "convert_failed")
                 ELSE RxOutcome(obj, CacheSetItem(c, env.id, t), "converted")

\* faulty variant: a payload that does not decrypt is converted as it is
AdmitUndecrypted(c, env, key, garbage, t) ==
    LET seen == CacheSetItem(c, env.id, t)
        dec == IF env.variant = "encrypted"
               THEN try_encrypt_envelope(env, key, garbage)
               ELSE Some(env.decoded)
        obj == convert_envelope_to_json(env, IF dec.some THEN dec.val ELSE env.decoded)
    IN  IF ~obj.some THEN RxOutcome(None, seen, "convert_failed")
        ELSE RxOutcome(obj, seen, IF dec.some THEN "converted" ELSE "decrypt_failed")

\* faulty variant: the id recorded once the payload is decrypted
RecordDecrypted(c, env, key, garbage, t) ==
    LET seen == CacheSetItem(c, env.id, t)
        dec == IF env.variant = "encrypted"
               THEN try_encrypt_envelope(env, key, garbage)
               ELSE Some(env.decoded)
    IN  IF ~dec.some THEN RxOutcome(None, c, "decrypt_failed")
        ELSE LET obj == convert_envelope_to_json(env, dec.val)
             IN  IF ~obj.some THEN RxOutcome(None, seen, "convert_failed")
                 ELSE RxOutcome(obj, seen, "converted")

\* "seen_ids[packet_id] = True", then decrypt, then convert
Admitted(c, env, key, garbage, t) ==
    LET seen == CacheSetItem(c, env.id, t)
        dec == IF env.variant = "encrypted"
               THEN try_encrypt_envelope(env, key, garbage)
               ELSE Some(env.decoded)
    IN  IF ~dec.some THEN RxOutcome(None, seen, "decrypt_failed")
        ELSE LET obj == convert_envelope_to_json(env, dec.val)
             IN  IF ~obj.some THEN RxOutcome(None, seen, "convert_failed")
                 ELSE RxOutcome(obj, seen, "converted")

\* faulty variant: decryption ahead of the dedup check
DecryptFirst(c, env, key, garbage, t) ==
    IF ~env.parse_ok THEN RxOutcome(None, c, "parse_failed")
    ELSE IF ~env.has_packet THEN RxOutcome(None, c, "no_packet")
    ELSE IF env.variant = "encrypted"
            /\ ~try_encrypt_envelope(env, key, garbage).some
    THEN RxOutcome(None, c, "decrypt_failed")
    ELSE IF Rejected(c, env.id, t) THEN RxOutcome(None, c, "rejected")
    ELSE Admitted(c, env, key, garbage, t)

\* packet_receive(msg, key)
packet_receive(c, env, key, garbage, t) ==
    IF ~env.parse_ok THEN RxOutcome(None, c, "parse_failed")
    ELSE IF ~env.has_packet THEN RxOutcome(None, c, "no_packet")
    ELSE IF Rejected(c, env.id, t) THEN RxOutcome(None, c, "rejected")
    ELSE Admitted(c, env, key, garbage, t)

(***************************************************************************)
(* device_tracker.py: what the tracker entity writes into its node's dict  *)
(***************************************************************************)
pdop_min_threshold == Rat(1, 2)   \* entry.options default 0.5
pdop_max_threshold == Rat(8, 1)   \* entry.options default 8.0

\* faulty variant: the gate has the upper threshold only
GateMaxOnly(d) ==
    LET has_lat == "latitude_i" \in DOMAIN d
        has_lon == "longitude_i" \in DOMAIN d
        update_position ==
            IF "PDOP" \in DOMAIN d
            THEN ~RatLt(pdop_max_threshold, d["PDOP"])
            ELSE TRUE
    IN  IF update_position /\ has_lat /\ has_lon
        THEN DictSet(DictSet(d, "latitude", Rat(d["latitude_i"], 10000000)),
                     "longitude", Rat(d["longitude_i"], 10000000))
        ELSE d

\* MeshtasticDeviceTracker._handle_coordinator_update on the node's dict d
\* (the dict a missing node yields is a temporary: writes to it are lost)
_handle_coordinator_update(d) ==
    LET has_lat == "latitude_i" \in DOMAIN d
        has_lon == "longitude_i" \in DOMAIN d
        update_position ==
            IF "PDOP" \in DOMAIN d
            THEN ~(RatLt(d["PDOP"], pdop_min_threshold)
                   \/ RatLt(pdop_max_threshold, d["PDOP"]))
            ELSE TRUE
    IN  IF update_position /\ has_lat /\ has_lon
        THEN DictSet(DictSet(d, "latitude", Rat(d["latitude_i"], 10000000)),
                     "longitude", Rat(d["longitude_i"], 10000000))
        ELSE d

\* faulty variant: the restore puts a new dict in place of the node's dict
RestoreReplace(d, last_state) ==
    IF last_state.lat.some /\ last_state.lon.some
    THEN [latitude |-> last_state.lat.val, longitude |-> last_state.lon.val]
    ELSE d

\* the restore of MeshtasticDeviceTracker.async_added_to_hass on the node's
\* dict d, for a last state that is not None
RestoreLocation(d, last_state) ==
    IF "latitude" \notin DOMAIN d \/ "longitude" \notin DOMAIN d
    THEN IF last_state.lat.some /\ last_state.lon.some
         THEN DictSet(DictSet(d, "latitude", last_state.lat.val),
                      "longitude", last_state.lon.val)
         ELSE d
    ELSE d

\* the restore of MeshtasticNodeSensor.async_added_to_hass for the sensor of
\* key on the node's dict d, for a last state that is not None: a numeric
\* state restores as a float, "unknown" and "unavailable" as None
RestoreSensor(d, key, last_state) ==
    IF key \notin DOMAIN d
    THEN DictSet(d, key, IF last_state.numeric THEN Some(last_state.value) ELSE None)
    ELSE d

(***************************************************************************)
(* Inputs                                                                  *)
(***************************************************************************)
NodeA == U32(186, 186, 206, 202)   \* 0xBABACECA
NodeB == U32(0, 0, 0, 26)          \* 0x0000001A

TextData(t) == [portnum |-> TEXT_MESSAGE_APP, payload |-> [ok |-> TRUE, val |-> t]]

Position(pdop) ==
    [latitude_i |-> 426977000, longitude_i |-> 233219000, altitude |-> 550,
     ground_speed |-> 0, sats_in_view |-> 7, precision_bits |-> 32,
     ground_track |-> 1500, PDOP |-> pdop]
PositionData(pdop) ==
    [portnum |-> POSITION_APP, payload |-> [ok |-> TRUE, val |-> Position(pdop)]]
BadPositionData == [portnum |-> POSITION_APP, payload |-> [ok |-> FALSE]]
NoData == [portnum |-> 0, payload |-> [ok |-> TRUE, val |-> ""]]

\* an envelope whose packet carries an encrypted payload
EncryptedEnvelope(id, from, keybytes, plain) ==
    [parse_ok |-> TRUE, has_packet |-> TRUE, gateway_id |-> "!00000gw1",
     id |-> id, from |-> from, hop_start |-> 3, hop_limit |-> 1,
     rx_snr |-> Rat(25, 4), rx_rssi |-> -90, rx_time |-> 1700000000,
     variant |-> "encrypted", encrypted |-> [key |-> keybytes, plain |-> plain],
     decoded |-> NoData]

\* an envelope whose packet carries a decoded payload
DecodedEnvelope(id, from, decoded) ==
    [parse_ok |-> TRUE, has_packet |-> TRUE, gateway_id |-> "!00000gw2",
     id |-> id, from |-> from, hop_start |-> 3, hop_limit |-> 3,
     rx_snr |-> Rat(-5, 1), rx_rssi |-> -110, rx_time |-> 1700000060,
     variant |-> "decoded", encrypted |-> [key |-> <<>>, plain |-> NoData],
     decoded |-> decoded]

\* bytes that ParseFromString rejects, and an envelope without a packet
Unparsable == [parse_ok |-> FALSE]
NoPacketEnvelope == [parse_ok |-> TRUE, has_packet |-> FALSE]

IdOne == U32(0, 0, 0, 1)
IdTwo == U32(0, 0, 1, 0)

\* the envelopes of the main specification
Envelopes ==
    {EncryptedEnvelope(IdOne, NodeA, DefaultKeyBytes, TextData("hello")),
     EncryptedEnvelope(IdTwo, NodeA, DefaultKeyBytes, PositionData(3)),
     EncryptedEnvelope(IdTwo, NodeA, OtherKeyBytes, TextData("secret")),
     DecodedEnvelope(IdOne, NodeB, PositionData(297))}

\* a Data message of a port that has no converter (ROUTING_APP)
RoutingData == [portnum |-> 5, payload |-> [ok |-> TRUE, val |-> ""]]

\* the envelopes of the fault specification: a text that decrypts, a payload
\* of another channel key, a position that does not decode, a packet of a
\* port without converter, and two payloads that are no envelope with a packet
FaultEnvelopes ==
    {EncryptedEnvelope(IdOne, NodeA, DefaultKeyBytes, TextData("hello")),
     EncryptedEnvelope(IdTwo, NodeB, OtherKeyBytes, TextData("secret")),
     DecodedEnvelope(IdTwo, NodeA, BadPositionData),
     DecodedEnvelope(IdTwo, NodeA, RoutingData),
     Unparsable,
     NoPacketEnvelope}

\* the envelopes of the field specification: texts over several pairs of
\* hop_start and hop_limit, and positions over several values of ground_track
\* and of PDOP, around the thresholds of _as_position
FieldEnvelopes ==
    {[DecodedEnvelope(IdOne, NodeA, TextData("hello"))
        EXCEPT !.hop_start = h[1], !.hop_limit = h[2]] :
            h \in {<<3, 1>>, <<3, 3>>, <<1, 3>>, <<0, 7>>}}
    \cup {DecodedEnvelope(IdTwo, NodeB,
                          [PositionData(3) EXCEPT !.payload.val.ground_track = g]) :
            g \in {45, 1000, 1001, 1500, 359999}}
    \cup {DecodedEnvelope(IdTwo, NodeA, PositionData(p)) :
            p \in {3, 50, 51, 297}}

\* the envelopes of the tracker specification, all of node A: positions at
\* two places with a PDOP inside, outside and at the edge of the thresholds
\* (raw 0 is a Position without PDOP, raw 80 and 81 are scaled to 8.0 and
\* 8.1), and a text
TrackerEnvelopes ==
    {DecodedEnvelope(IdOne, NodeA, PositionData(p)) : p \in {3, 297}}
    \cup {DecodedEnvelope(IdTwo, NodeA,
                          [PositionData(p) EXCEPT
                              !.payload.val.latitude_i = 427000000,
                              !.payload.val.longitude_i = 233000000]) :
            p \in {0, 8, 80, 81}}
    \cup {DecodedEnvelope(IdTwo, NodeA, TextData("hello"))}

\* the packets received before the dedup specification starts: packets of
\* node B with distinct ids, which leave Headroom slots of the cache free
Prefill == maxsize - Headroom
PrefillId(i) == U32(80, 0, 0, i)
PrefillEnvelope(i) == DecodedEnvelope(PrefillId(i), NodeB, PositionData(297))

\* the envelopes of the dedup specification: the least 32-bit id, the
\* greatest one as two gateways relay it (one of them with a payload that
\* does not decode), the earliest of the packets received before, and two
\* payloads that are no envelope with a packet
DedupEnvelopes ==
    {EncryptedEnvelope(U32Zero, NodeA, DefaultKeyBytes, TextData("hello")),
     EncryptedEnvelope(U32Max, NodeA, DefaultKeyBytes, TextData("hello")),
     DecodedEnvelope(U32Max, NodeA, BadPositionData),
     PrefillEnvelope(1),
     Unparsable,
     NoPacketEnvelope}

\* a JSON message: json_ok says whether json.loads accepts the payload
JsonMessage(from, to, text) ==
    [json_ok |-> TRUE, from |-> from, to |-> to, timestamp |-> 1700000120,
     text |-> text, topic |-> <<"msh", "EU_868", "2", "json", "LongFast", "!gw">>]
BadJson == [json_ok |-> FALSE]

JsonMessages ==
    {BadJson,
     JsonMessage(Some(NodeB), Some(U32Max), "hi"),
     JsonMessage(Some(NodeA), None, "hi"),
     JsonMessage(Some(NodeA), Some(NodeB), "")}

LastStates ==
    {None,
     Some([lat |-> Some(Rat(427, 10)), lon |-> Some(Rat(233, 10))]),
     Some([lat |-> None, lon |-> None])}

SensorStates ==
    {None,
     Some([numeric |-> TRUE, value |-> Rat(87, 1)]),
     Some([numeric |-> FALSE])}

TrackedChoices == {{}, {"!babaceca"}}
DebounceMsChoices == {2000}
encryption_key == "AQ=="

(***************************************************************************)
(* State                                                                   *)
(***************************************************************************)
VARIABLES
    now,            \* the event loop's clock, in seconds
    hass_mqtt,      \* "mqtt" in hass.data
    start_pc,       \* where async_start / the entry's life cycle stands
    polls,          \* iterations of async_start's wait loop that found no mqtt
    unsub_proto,    \* coordinator._mqtt_unsub_proto is set: binary topic subscribed
    unsub_json,     \* coordinator._mqtt_unsub_json is set: JSON topic subscribed
    tracked_nodes,  \* coordinator.tracked_nodes
    debounce_delay, \* coordinator._debounce_delay
    seen_ids,       \* pb_data.seen_ids
    latest,         \* coordinator.latest: node id -> dict
    snapshot,       \* the dict last passed to async_set_updated_data, or None
    shared,         \* node ids whose dict in snapshot is the same object as in latest
    tasks,          \* the debounce tasks that are not done, oldest first
    debounce_task,  \* coordinator._debounce_task: index into tasks,
                    \* 0 when it is None or a task that is done
    entities,       \* node ids whose tracker entity listens to the coordinator
    sensors,        \* node ids whose battery_level sensor entity was added
    rx,             \* what the packet_receive call of this step did
    queued,         \* the arguments of the _queue_update call of this step
    since_queue,    \* calls of async_set_updated_data since the last _queue_update
    last_queue,     \* the time of the last _queue_update, -1 before the first
    burst,          \* the fields merged since the last emission: node id -> dict
    copied,         \* the content of dict(self.latest) at the last emission
    admitted,       \* the packets that passed the dedup check: id and time, in order
    built,          \* the last call of build_encrypted_envelope: arguments and result
    send,           \* the last send_packet service call: request, publishes, error
    peer            \* a second coordinator of the same Home Assistant instance

vars ==
    <<now, hass_mqtt, start_pc, polls, unsub_proto, unsub_json, tracked_nodes,
      debounce_delay, seen_ids, latest, snapshot, shared, tasks, debounce_task,
      entities, sensors, rx, queued, since_queue, last_queue, burst, copied,
      admitted, built, send, peer>>

config == <<tracked_nodes, debounce_delay>>
subs == <<unsub_proto, unsub_json>>
startup == <<hass_mqtt, start_pc, polls>>
state == <<latest, snapshot, shared>>
timer == <<tasks, debounce_task>>
merges == <<since_queue, last_queue, burst>>
outbound == <<built, send>>

\* no send_packet call was made yet
NoCall == [request |-> None, published |-> <<>>, raised |-> ""]

NoRx == [stage |-> "none", id |-> U32Zero]

\* the second coordinator after __init__: its own latest, the stage its last
\* packet reached, the packets packet_receive admitted for it, and whether its
\* debounce task is scheduled
NoPeer == [latest |-> EmptyDict, stage |-> "none", admitted |-> {}, pending |-> FALSE]

\* MeshtasticTrackerCoordinator.__init__, with the module-level seen_ids
Init ==
    /\ now = 0
    /\ hass_mqtt = FALSE
    /\ start_pc = "poll"
    /\ polls = 0
    /\ unsub_proto = FALSE
    /\ unsub_json = FALSE
    /\ tracked_nodes \in TrackedChoices
    /\ \E debounce_ms \in DebounceMsChoices : debounce_delay = debounce_ms \div 1000
    /\ seen_ids = <<>>
    /\ latest = EmptyDict
    /\ snapshot = None
    /\ shared = {}
    /\ tasks = <<>>
    /\ debounce_task = 0
    /\ entities = {}
    /\ sensors = {}
    /\ rx = NoRx
    /\ queued = None
    /\ since_queue = 0
    /\ last_queue = -1
    /\ burst = EmptyDict
    /\ copied = None
    /\ admitted = <<>>
    /\ built = None
    /\ send = NoCall
    /\ peer = NoPeer

(***************************************************************************)
(* Debounce tasks.  A task is new (created, first step pending), sleeping  *)
(* (inside asyncio.sleep), ready (the sleep's timer has fired, the resume  *)
(* is pending) or cancelling (Task.cancel() was called: the task's next    *)
(* step raises CancelledError at its await, or before its first            *)
(* instruction, instead of continuing).  A task that is done leaves tasks. *)
(***************************************************************************)
\* faulty variant: a task that is cancelled as it is created
Stillborn == [phase |-> "cancelling", wake |-> 0]

NewTask == [phase |-> "new", wake |-> 0]

\* faulty variant: a cancellation that lets the task resume
Uncancelled == [phase |-> "ready", wake |-> 0]

CancellingTask == [phase |-> "cancelling", wake |-> 0]

\* faulty variant: no cancellation of the task scheduled before
KeepRunning(ts, i) == ts

\* faulty variant: a task whose sleep has ended is out of reach of cancel()
CancelUnlessReady(ts, i) ==
    IF i # 0 /\ ts[i].phase # "ready" THEN [ts EXCEPT ![i] = CancellingTask] ELSE ts

\* "if self._debounce_task and not self._debounce_task.done(): cancel()"
CancelRunning(ts, i) ==
    IF i # 0 THEN [ts EXCEPT ![i] = CancellingTask] ELSE ts

\* the tasks, and the index of _debounce_task, once task i is done
Finish(ts, i) == [j \in 1..(Len(ts) - 1) |-> IF j < i THEN ts[j] ELSE ts[j + 1]]
Reindex(d, i) == IF d = i THEN 0 ELSE IF d > i THEN d - 1 ELSE d

\* faulty variant: the new fields replace the device's entry
Overwrite(existing, new_data) == new_data

\* "{**existing, **new_data}"
QueueMerge(existing, new_data) == DictMerge(existing, new_data)

\* MeshtasticTrackerCoordinator._queue_update(node_id, new_data)
_queue_update(node_id, new_data) ==
    /\ Len(tasks) < MaxTasks
    /\ latest' = DictSet(latest, node_id,
                         QueueMerge(DictGet(latest, node_id), new_data))
    /\ shared' = shared \ {node_id}
    /\ tasks' = Append(CancelRunning(tasks, debounce_task), NewTask)
    /\ debounce_task' = Len(tasks) + 1
    /\ queued' = Some([node_id |-> node_id, new_data |-> new_data])
    /\ since_queue' = 0
    /\ last_queue' = now
    /\ burst' = DictSet(burst, node_id,
                        DictMerge(DictGet(burst, node_id), new_data))
    /\ UNCHANGED snapshot

\* a handler that returns without calling _queue_update
NoUpdate ==
    /\ queued' = None
    /\ UNCHANGED <<state, timer, merges>>

\* faulty variant: no filter
TrackEveryNode(node_id) == TRUE

\* "if self.tracked_nodes and node_id not in self.tracked_nodes: return"
Tracked(node_id) == tracked_nodes = {} \/ node_id \in tracked_nodes

(***************************************************************************)
(* Start-up: MeshtasticTrackerCoordinator.async_start                      *)
(***************************************************************************)
\* the MQTT integration finishes its own setup
MqttSetup ==
    /\ ~hass_mqtt
    /\ start_pc = "poll"
    /\ hass_mqtt' = TRUE
    /\ rx' = NoRx
    /\ queued' = None
    /\ UNCHANGED <<now, start_pc, polls, subs, config, seen_ids, state, timer,
                   entities, sensors, merges, copied, admitted>>
    /\ UNCHANGED outbound
    /\ UNCHANGED peer

\* one iteration of "for _ in range(10)": break when mqtt is there, else
\* sleep 5 s (the sleep is a yield here: nothing timed exists before start)
StartPoll ==
    /\ start_pc = "poll"
    /\ polls < MaxPolls
    /\ IF hass_mqtt
       THEN start_pc' = "subscribe_proto" /\ polls' = 0
       ELSE start_pc' = "poll" /\ polls' = polls + 1
    /\ rx' = NoRx
    /\ queued' = None
    /\ UNCHANGED <<now, hass_mqtt, subs, config, seen_ids, state, timer,
                   entities, sensors, merges, copied, admitted>>
    /\ UNCHANGED outbound
    /\ UNCHANGED peer

\* faulty variant: the loop's else clause goes on to subscribe
SubscribeUnready ==
    /\ start_pc = "poll"
    /\ polls = MaxPolls
    /\ start_pc' = "subscribe_proto"
    /\ polls' = 0
    /\ rx' = NoRx
    /\ queued' = None
    /\ UNCHANGED <<now, hass_mqtt, subs, config, seen_ids, state, timer,
                   entities, sensors, merges, copied, admitted>>
    /\ UNCHANGED outbound
    /\ UNCHANGED peer

\* the loop's else clause: raise UpdateFailed
StartTimeout ==
    /\ start_pc = "poll"
    /\ polls = MaxPolls
    /\ start_pc' = "failed"
    /\ polls' = 0
    /\ rx' = NoRx
    /\ queued' = None
    /\ UNCHANGED <<now, hass_mqtt, subs, config, seen_ids, state, timer,
                   entities, sensors, merges, copied, admitted>>
    /\ UNCHANGED outbound
    /\ UNCHANGED peer

\* the first mqtt.async_subscribe: ok, or it raises and UpdateFailed follows
SubscribeProto(ok) ==
    /\ start_pc = "subscribe_proto"
    /\ unsub_proto' = ok
    /\ start_pc' = IF ok THEN "subscribe_json" ELSE "failed"
    /\ rx' = NoRx
    /\ queued' = None
    /\ UNCHANGED <<now, hass_mqtt, polls, unsub_json, config, seen_ids, state,
                   timer, entities, sensors, merges, copied, admitted>>
    /\ UNCHANGED outbound
    /\ UNCHANGED peer

\* the second mqtt.async_subscribe
SubscribeJson(ok) ==
    /\ start_pc = "subscribe_json"
    /\ unsub_json' = ok
    /\ start_pc' = IF ok THEN "started" ELSE "failed"
    /\ rx' = NoRx
    /\ queued' = None
    /\ UNCHANGED <<now, hass_mqtt, polls, unsub_proto, config, seen_ids, state,
                   timer, entities, sensors, merges, copied, admitted>>
    /\ UNCHANGED outbound
    /\ UNCHANGED peer

(***************************************************************************)
(* Message handlers                                                        *)
(***************************************************************************)
\* MeshtasticTrackerCoordinator._mqtt_message_callback(msg)
_mqtt_message_callback(env, garbage) ==
    /\ unsub_proto
    /\ LET out == packet_receive(seen_ids, env, encryption_key, garbage, now)
       IN  /\ seen_ids' = out.seen
           /\ rx' = [stage |-> out.stage,
                     id |-> IF out.stage \in {"parse_failed", "no_packet"}
                            THEN U32Zero ELSE env.id]
           /\ admitted' = IF out.stage \in AdmittedStages
                           THEN Append(admitted, [id |-> env.id, time |-> now])
                           ELSE admitted
           /\ IF out.ret.some /\ Tracked(FormatNodeId(out.ret.val.from))
              THEN _queue_update(FormatNodeId(out.ret.val.from), out.ret.val)
              ELSE NoUpdate
    /\ UNCHANGED <<now, startup, subs, config, entities, sensors, copied>>
    /\ UNCHANGED outbound
    /\ UNCHANGED peer

\* msg.topic.split("/")[-2]
TopicField(topic) == topic[Len(topic) - 1]

\* MeshtasticTrackerCoordinator._mqtt_message_callback_json(msg)
_mqtt_message_callback_json(msg) ==
    /\ unsub_json
    /\ IF ~msg.json_ok \/ ~msg.from.some
       THEN NoUpdate
       ELSE IF ~Tracked(FormatNodeId(msg.from.val)) \/ msg.text = ""
                \/ ~msg.to.some
       THEN NoUpdate
       ELSE _queue_update(FormatNodeId(msg.from.val),
                          [text |-> msg.text,
                           txt_time |-> msg.timestamp,
                           text_to |-> FormatNodeId(msg.to.val),
                           topic |-> TopicField(msg.topic)])
    /\ rx' = NoRx
    /\ UNCHANGED <<now, startup, subs, config, seen_ids, entities, sensors,
                   copied, admitted>>
    /\ UNCHANGED outbound
    /\ UNCHANGED peer

(***************************************************************************)
(* The debounce task: MeshtasticTrackerCoordinator._debounce_commit        *)
(***************************************************************************)
\* what a holder of the snapshot dict snap reads: the dicts of the nodes in
\* sh are the very objects of l
Visible(snap, l, sh) ==
    [n \in DOMAIN snap |-> IF n \in sh THEN l[n] ELSE snap[n]]

\* async_update_listeners(): every tracker entity's _handle_coordinator_update
Notify(l) ==
    [n \in DOMAIN l |->
        IF n \in entities THEN _handle_coordinator_update(l[n]) ELSE l[n]]

\* the first step of a task: it reaches
\* "await asyncio.sleep(self._debounce_delay)"
TaskStart(i) ==
    /\ tasks[i].phase = "new"
    /\ tasks' = [tasks EXCEPT ![i] =
                    [phase |-> "sleeping", wake |-> now + debounce_delay]]
    /\ rx' = NoRx
    /\ queued' = None
    /\ UNCHANGED <<now, startup, subs, config, seen_ids, state, debounce_task,
                   entities, sensors, merges, copied, admitted>>
    /\ UNCHANGED outbound
    /\ UNCHANGED peer

\* faulty variant: a sleep that returns at once
EarlyWake(t) == TRUE

\* the sleep's timer is due
TimerDue(t) == t.wake <= now

\* the sleep's timer fires: the task becomes ready to resume

TimerFire(i) ==
    /\ tasks[i].phase = "sleeping"
    /\ TimerDue(tasks[i])
    /\ tasks' = [tasks EXCEPT ![i].phase = "ready"]
    /\ rx' = NoRx
    /\ queued' = None
    /\ UNCHANGED <<now, startup, subs, config, seen_ids, state, debounce_task,
                   entities, sensors, merges, copied, admitted>>
    /\ UNCHANGED outbound
    /\ UNCHANGED peer

\* a cancelled task takes its next step: CancelledError ends it
TaskCancelled(i) ==
    /\ tasks[i].phase = "cancelling"
    /\ tasks' = Finish(tasks, i)
    /\ debounce_task' = Reindex(debounce_task, i)
    /\ rx' = NoRx
    /\ queued' = None
    /\ UNCHANGED <<now, startup, subs, config, seen_ids, state, entities,
                   sensors, merges, copied, admitted>>
    /\ UNCHANGED outbound
    /\ UNCHANGED peer

\* the task resumes after its sleep:
\* self.async_set_updated_data(dict(self.latest)), listeners included
DebounceCommit(i) ==
    /\ tasks[i].phase = "ready"
    /\ tasks' = Finish(tasks, i)
    /\ debounce_task' = Reindex(debounce_task, i)
    /\ copied' = Some(latest)
    /\ latest' = Notify(latest)
    /\ shared' = DOMAIN latest
    /\ snapshot' = Some(Visible(latest, latest', shared'))
    /\ since_queue' = since_queue + 1
    /\ burst' = EmptyDict
    /\ rx' = NoRx
    /\ queued' = None
    /\ UNCHANGED <<now, startup, subs, config, seen_ids, entities, sensors,
                   last_queue, admitted>>
    /\ UNCHANGED outbound
    /\ UNCHANGED peer

(***************************************************************************)
(* Entities and shutdown                                                   *)
(***************************************************************************)
\* MeshtasticDeviceTracker.async_added_to_hass for the entity of node n
TrackerAdded(n, last_state) ==
    /\ start_pc = "started"
    /\ n \in tracked_nodes \ entities
    /\ entities' = entities \cup {n}
    /\ IF last_state.some
       THEN latest' = DictSet(latest, n,
                              RestoreLocation(DictGet(latest, n), last_state.val))
       ELSE latest' = latest
    /\ snapshot' = IF snapshot.some
                   THEN Some(Visible(snapshot.val, latest', shared))
                   ELSE None
    /\ rx' = NoRx
    /\ queued' = None
    /\ UNCHANGED <<now, startup, subs, config, seen_ids, shared, timer, sensors,
                   merges, copied, admitted>>
    /\ UNCHANGED outbound
    /\ UNCHANGED peer

\* MeshtasticNodeSensor.async_added_to_hass for the battery_level sensor of
\* node n
SensorAdded(n, last_state) ==
    /\ start_pc = "started"
    /\ n \in tracked_nodes \ sensors
    /\ sensors' = sensors \cup {n}
    /\ IF last_state.some
       THEN latest' = DictSet(latest, n,
                              RestoreSensor(DictGet(latest, n), "battery_level",
                                            last_state.val))
       ELSE latest' = latest
    /\ snapshot' = IF snapshot.some
                   THEN Some(Visible(snapshot.val, latest', shared))
                   ELSE None
    /\ rx' = NoRx
    /\ queued' = None
    /\ UNCHANGED <<now, startup, subs, config, seen_ids, shared, timer, entities,
                   merges, copied, admitted>>
    /\ UNCHANGED outbound
    /\ UNCHANGED peer

\* MeshtasticTrackerCoordinator.async_update_friendly_name(new_name) with a
\* new name: async_update_listeners() without a new snapshot
async_update_friendly_name ==
    /\ start_pc = "started"
    /\ latest' = Notify(latest)
    /\ snapshot' = IF snapshot.some
                   THEN Some(Visible(snapshot.val, latest', shared))
                   ELSE None
    /\ rx' = NoRx
    /\ queued' = None
    /\ UNCHANGED <<now, startup, subs, config, seen_ids, shared, timer, entities,
                   sensors, merges, copied, admitted>>
    /\ UNCHANGED outbound
    /\ UNCHANGED peer

\* async_unload_entry, first part: the platforms are unloaded, which removes
\* the entities and their listeners
UnloadPlatforms ==
    /\ start_pc = "started"
    /\ start_pc' = "unloading"
    /\ entities' = {}
    /\ sensors' = {}
    /\ rx' = NoRx
    /\ queued' = None
    /\ UNCHANGED <<now, hass_mqtt, polls, subs, config, seen_ids, state, timer,
                   merges, copied, admitted>>
    /\ UNCHANGED outbound
    /\ UNCHANGED peer

\* faulty variant: a stop that only unsubscribes
StopWithoutCancel ==
    /\ start_pc = "unloading"
    /\ start_pc' = "stopped"
    /\ unsub_json' = FALSE
    /\ unsub_proto' = FALSE
    /\ rx' = NoRx
    /\ queued' = None
    /\ UNCHANGED <<now, hass_mqtt, polls, config, seen_ids, state, timer,
                   entities, sensors, merges, copied, admitted>>
    /\ UNCHANGED outbound
    /\ UNCHANGED peer

\* MeshtasticTrackerCoordinator.async_stop
async_stop ==
    /\ start_pc = "unloading"
    /\ start_pc' = "stopped"
    /\ tasks' = CancelRunning(tasks, debounce_task)
    /\ unsub_json' = FALSE
    /\ unsub_proto' = FALSE
    /\ rx' = NoRx
    /\ queued' = None
    /\ UNCHANGED <<now, hass_mqtt, polls, config, seen_ids, state, debounce_task,
                   entities, sensors, merges, copied, admitted>>
    /\ UNCHANGED outbound
    /\ UNCHANGED peer

(***************************************************************************)
(* proto.py: building an encrypted envelope.  Here the cipher is spelled   *)
(* out as the claim of the round trip needs it: CTR mode is the XOR of the *)
(* data with a keystream that is a function of the key and the nonce.      *)
(***************************************************************************)
\* n.to_bytes(8, "little") of a 32-bit n
ToBytes8Little(n) == <<n[4], n[3], n[2], n[1], 0, 0, 0, 0>>

\* faulty variant: the nonce of the receiving side in big-endian order
BigEndianNonce(packet) ==
    <<0, 0, 0, 0>> \o packet.id \o <<0, 0, 0, 0>> \o packet.from

\* the nonce of build_encrypted_envelope
BuildNonce(packet_id, from_id) == ToBytes8Little(packet_id) \o ToBytes8Little(from_id)

\* the nonce of try_encrypt_envelope
DecryptNonce(packet) == ToBytes8Little(packet.id) \o ToBytes8Little(packet.from)

RECURSIVE WeightedSum(_)
WeightedSum(bytes) ==
    IF bytes = <<>> THEN 0
    ELSE Len(bytes) * bytes[Len(bytes)] + WeightedSum(SubSeq(bytes, 1, Len(bytes) - 1))

\* byte i of the keystream: some function of (key, nonce) and the position
Keystream(key, nonce, i) ==
    (WeightedSum(key) + 31 * WeightedSum(nonce) + 17 * i) % 256

\* a ^ b on bytes
RECURSIVE Xor(_, _)
Xor(a, b) ==
    IF a = 0 THEN b
    ELSE IF b = 0 THEN a
    ELSE ((a + b) % 2) + 2 * Xor(a \div 2, b \div 2)

\* Cipher(AES(key), CTR(nonce)): encryptor.update(data) + finalize(), and the
\* same for the decryptor
AesCtr(key, nonce, data) ==
    [i \in 1..Len(data) |-> Xor(data[i], Keystream(key, nonce, i))]

\* text.encode("utf-8") of the texts the model sends
Texts == {"", "hello"}
Utf8(text) == IF text = "hello" THEN <<104, 101, 108, 108, 111>> ELSE <<>>

\* Data(portnum=TEXT_MESSAGE_APP, payload=...).SerializeToString(): field 1 as
\* a varint, field 2 length-delimited and left out when it is empty
SerializeData(text) ==
    <<8, TEXT_MESSAGE_APP>>
        \o (IF Utf8(text) = <<>> THEN <<>> ELSE <<18, Len(Utf8(text))>> \o Utf8(text))

\* Data.ParseFromString of decrypted bytes: None when they are no Data message
ParseData(bytes) ==
    IF \E t \in Texts : SerializeData(t) = bytes
    THEN Some(TextData(CHOOSE t \in Texts : SerializeData(t) = bytes))
    ELSE None

\* the fields of the envelope and its packet that the integration reads, with
\* their protobuf defaults
FieldDefaults ==
    [id |-> U32Zero, from |-> U32Zero, to |-> U32Zero, channel |-> 0,
     hop_limit |-> 0, hop_start |-> 0, rx_snr |-> Rat(0, 1), rx_rssi |-> 0,
     rx_time |-> 0, gateway_id |-> ""]

\* ServiceEnvelope.SerializeToString(): a field that has its default value is
\* not written; the member of the payload oneof is
SerializeToString(env) ==
    [f \in {g \in DOMAIN FieldDefaults : env[g] # FieldDefaults[g]} \cup {"encrypted"}
        |-> env[f]]

\* ServiceEnvelope.ParseFromString(msg) of such bytes
ParseFromString(wire) ==
    [parse_ok |-> TRUE, has_packet |-> TRUE,
     id |-> IF "id" \in DOMAIN wire THEN wire["id"] ELSE FieldDefaults.id,
     from |-> IF "from" \in DOMAIN wire THEN wire["from"] ELSE FieldDefaults.from,
     to |-> IF "to" \in DOMAIN wire THEN wire["to"] ELSE FieldDefaults.to,
     channel |-> IF "channel" \in DOMAIN wire THEN wire["channel"]
                 ELSE FieldDefaults.channel,
     hop_limit |-> IF "hop_limit" \in DOMAIN wire THEN wire["hop_limit"]
                   ELSE FieldDefaults.hop_limit,
     hop_start |-> IF "hop_start" \in DOMAIN wire THEN wire["hop_start"]
                   ELSE FieldDefaults.hop_start,
     rx_snr |-> IF "rx_snr" \in DOMAIN wire THEN wire["rx_snr"]
                ELSE FieldDefaults.rx_snr,
     rx_rssi |-> IF "rx_rssi" \in DOMAIN wire THEN wire["rx_rssi"]
                 ELSE FieldDefaults.rx_rssi,
     rx_time |-> IF "rx_time" \in DOMAIN wire THEN wire["rx_time"]
                 ELSE FieldDefaults.rx_time,
     gateway_id |-> IF "gateway_id" \in DOMAIN wire THEN wire["gateway_id"]
                    ELSE FieldDefaults.gateway_id,
     variant |-> "encrypted", encrypted |-> wire["encrypted"], decoded |-> NoData]

\* build_encrypted_envelope(text, from_id, to_id, channel, key_b64) with
\* packet_id the four bytes os.urandom(4) returns: None when it raises.  The
\* payload is sealed under the key bytes; what the holder of these key bytes
\* reads is what its own nonce opens.
build_encrypted_envelope(text, from_id, to_id, channel, key_b64, packet_id) ==
    LET key == KeyBytes(key_b64)
    IN  IF ~key.some \/ ~AesKeyOk(key.val) THEN None
        ELSE LET ciphertext == AesCtr(key.val, BuildNonce(packet_id, from_id),
                                      SerializeData(text))
                 packet == [id |-> packet_id, from |-> from_id]
                 opened == ParseData(AesCtr(key.val, DecryptNonce(packet), ciphertext))
             IN  Some([parse_ok |-> TRUE, has_packet |-> TRUE, gateway_id |-> "",
                       id |-> packet_id, from |-> from_id, to |-> to_id,
                       channel |-> channel, hop_start |-> 3, hop_limit |-> 3,
                       rx_snr |-> Rat(0, 1), rx_rssi |-> 0, rx_time |-> 1700000200,
                       variant |-> "encrypted",
                       encrypted |-> [key |-> key.val,
                                      plain |-> IF opened.some THEN opened.val
                                                ELSE GarbageData,
                                      ciphertext |-> ciphertext],
                       decoded |-> NoData])

\* the arguments of the round trip
KeyChoices == {"AQ==", DEFAULT_ENC_KEY, "AAECAwQFBgcICQoLDA0ODw==", "Ag=="}
PacketIds == {U32Zero, IdOne, U32(1, 0, 0, 0), U32Max}

\* a call of build_encrypted_envelope, the envelope serialized
LoopbackBuild(text, from_id, to_id, channel, key_b64, packet_id) ==
    /\ ~built.some
    /\ LET env == build_encrypted_envelope(text, from_id, to_id, channel, key_b64,
                                           packet_id)
       IN  built' = Some([text |-> text, from_id |-> from_id, to_id |-> to_id,
                          channel |-> channel, key_b64 |-> key_b64,
                          packet_id |-> packet_id,
                          msg |-> IF env.some THEN Some(SerializeToString(env.val))
                                  ELSE None,
                          out |-> None])
    /\ rx' = NoRx
    /\ queued' = None
    /\ UNCHANGED <<now, startup, subs, config, seen_ids, state, timer, entities,
                   sensors, merges, copied, admitted, send, peer>>

\* packet_receive(msg, key) on the bytes built
LoopbackReceive(key_b64, garbage) ==
    /\ built.some
    /\ built.val.msg.some
    /\ ~built.val.out.some
    /\ LET env == ParseFromString(built.val.msg.val)
           out == packet_receive(seen_ids, env, key_b64, garbage, now)
       IN  /\ seen_ids' = out.seen
           /\ rx' = [stage |-> out.stage, id |-> env.id]
           /\ admitted' = IF out.stage \in AdmittedStages
                           THEN Append(admitted, [id |-> env.id, time |-> now])
                           ELSE admitted
           /\ built' = Some([built.val EXCEPT
                                !.out = Some([key_b64 |-> key_b64, ret |-> out.ret,
                                              stage |-> out.stage])])
    /\ queued' = None
    /\ UNCHANGED <<now, startup, subs, config, state, timer, entities, sensors,
                   merges, copied, send, peer>>

(***************************************************************************)
(* The send_packet service: handle_send_packet of __init__.py with the     *)
(* validators of helpers.py and pb_data.packet_send.  A string that is     *)
(* matched or parsed is the sequence of its characters; a service value is *)
(* tagged with its Python type.                                            *)
(***************************************************************************)
StrValue(chars) == [kind |-> "str", chars |-> chars]
IntValue(v) == [kind |-> "int", v |-> v]
FloatValue(num, den) == [kind |-> "float", num |-> num, den |-> den]
NoneValue == [kind |-> "none"]

\* the value of a hexadecimal digit, -1 for any other character
HexDigit(c) ==
    CASE c = "0" -> 0 [] c = "1" -> 1 [] c = "2" -> 2 [] c = "3" -> 3
      [] c = "4" -> 4 [] c = "5" -> 5 [] c = "6" -> 6 [] c = "7" -> 7
      [] c = "8" -> 8 [] c = "9" -> 9
      [] c \in {"a", "A"} -> 10 [] c \in {"b", "B"} -> 11
      [] c \in {"c", "C"} -> 12 [] c \in {"d", "D"} -> 13
      [] c \in {"e", "E"} -> 14 [] c \in {"f", "F"} -> 15
      [] OTHER -> -1

\* _NODE_ID_PATTERN.match(value) for r"^![A-Fa-f0-9]{8}$": "$" matches at the
\* end of the string and also just before a newline that ends it
NodeIdPatternMatch(chars) ==
    /\ Len(chars) = 9 \/ (Len(chars) = 10 /\ chars[10] = "\n")
    /\ chars[1] = "!"
    /\ \A i \in 2..9 : HexDigit(chars[i]) >= 0

\* validate_meshtastic_id(value, field): None when it raises
validate_meshtastic_id(value) ==
    IF value.kind # "str" THEN None
    ELSE IF ~NodeIdPatternMatch(value.chars) THEN None
    ELSE Some(value.chars)

\* int(id_str[1:], 16) of a validated id (int() skips the newline)
ParseHexId(chars) ==
    U32(16 * HexDigit(chars[2]) + HexDigit(chars[3]),
        16 * HexDigit(chars[4]) + HexDigit(chars[5]),
        16 * HexDigit(chars[6]) + HexDigit(chars[7]),
        16 * HexDigit(chars[8]) + HexDigit(chars[9]))

\* the digit strings the model passes as a channel
DecimalStrings == {<<"3">>, <<" ", "5", " ">>, <<"9">>}

\* int(value): None for TypeError and ValueError
IntOf(value) ==
    CASE value.kind = "int" -> Some(value.v)
      [] value.kind = "float" ->
            Some(IF value.num >= 0 THEN value.num \div value.den
                 ELSE -((-value.num) \div value.den))
      [] value.kind = "str" ->
            IF value.chars = <<"3">> THEN Some(3)
            ELSE IF value.chars = <<" ", "5", " ">> THEN Some(5)
            ELSE IF value.chars = <<"9">> THEN Some(9)
            ELSE None
      [] OTHER -> None

\* validate_channel(value): None when it raises
validate_channel(value) ==
    LET ivalue == IntOf(value)
    IN  IF ~ivalue.some THEN None
        ELSE IF ivalue.val < 0 \/ ivalue.val > 6 THEN None
        ELSE ivalue

\* pb_data.packet_send(text, to_id, gw_id, channel): the object json.dumps
\* writes
packet_send(text, to_id, gw_id, channel) ==
    [channel |-> 0, to |-> to_id, from |-> gw_id, type |-> "sendtext",
     payload |-> text]

base_topic == "msh/EU_868"

\* the outcome of a call: what mqtt.async_publish was given, or the field
\* whose check raised HomeAssistantError
Published(topic, payload) ==
    [published |-> <<[topic |-> topic, payload |-> payload, qos |-> 0,
                      retain |-> FALSE]>>,
     raised |-> ""]
Raised(field) == [published |-> <<>>, raised |-> field]

\* the body of handle_send_packet on call.data = data; a key that is missing
\* is None, and data.get("channel", 0) is 0 then
SendOutcome(data) ==
    IF ~data.text.some \/ data.text.val = "" THEN Raised("text")
    ELSE LET from_id_str ==
                 IF data.from_id.some THEN validate_meshtastic_id(data.from_id.val)
                 ELSE None
             to_id_str ==
                 IF data.to_id.some THEN validate_meshtastic_id(data.to_id.val)
                 ELSE None
             channel == validate_channel(IF data.channel.some THEN data.channel.val
                                         ELSE IntValue(0))
         IN  IF ~from_id_str.some THEN Raised("from_id")
             ELSE IF ~to_id_str.some THEN Raised("to_id")
             ELSE IF ~channel.some THEN Raised("channel")
             ELSE Published(base_topic \o "/2/json/mqtt/"
                                \o FormatNodeId(ParseHexId(from_id_str.val)),
                            packet_send(data.text.val, ParseHexId(to_id_str.val),
                                        ParseHexId(from_id_str.val), channel.val))

\* the service calls of the model
TextChoices == {None, Some(""), Some("hello")}
FromIdChoices ==
    {None,
     Some(StrValue(<<"!", "B", "A", "B", "A", "C", "E", "C", "A">>)),
     Some(StrValue(<<"!", "0", "0", "0", "0", "0", "0", "1", "a">>)),
     Some(StrValue(<<"!", "b", "a", "b", "a", "c", "e", "c", "a", "\n">>)),
     Some(StrValue(<<"b", "a", "b", "a", "c", "e", "c", "a", "0">>)),
     Some(IntValue(26))}
ToIdChoices ==
    {None,
     Some(StrValue(<<"!", "f", "f", "f", "f", "f", "f", "f", "f">>)),
     Some(StrValue(<<"!", "z", "z", "z", "z", "z", "z", "z", "z">>))}
ChannelChoices ==
    {None, Some(IntValue(0)), Some(IntValue(3)), Some(IntValue(6)), Some(IntValue(7)), Some(IntValue(-1)),
     Some(StrValue(<<"3">>)), Some(StrValue(<<" ", "5", " ">>)), Some(StrValue(<<"9">>)),
     Some(StrValue(<<"x">>)), Some(FloatValue(37, 10)), Some(FloatValue(-1, 2)),
     Some(FloatValue(69, 10)), Some(NoneValue)}

\* handle_send_packet(call) with the four keys of call.data
handle_send_packet(text, from_id, to_id, channel) ==
    /\ start_pc = "started"
    /\ LET data == [text |-> text, from_id |-> from_id, to_id |-> to_id,
                    channel |-> channel]
           outcome == SendOutcome(data)
       IN  send' = [request |-> Some(data),
                    published |-> outcome.published,
                    raised |-> outcome.raised]
    /\ rx' = NoRx
    /\ queued' = None
    /\ UNCHANGED <<now, startup, subs, config, seen_ids, state, timer, entities,
                   sensors, merges, copied, admitted, built, peer>>

(***************************************************************************)
(* A second coordinator (another config entry, as for another channel or   *)
(* another set of tracked nodes).  It has its own latest and debounce task *)
(* and calls the same pb_data.packet_receive, whose seen_ids is a global   *)
(* of the module pb_data.  It tracks every node and has the default key.   *)
(***************************************************************************)
\* _mqtt_message_callback(msg) of the second coordinator; its _queue_update
\* merges into its own latest and schedules its own debounce task
PeerCallback(env, garbage) ==
    /\ start_pc = "started"
    /\ LET out == packet_receive(seen_ids, env, encryption_key, garbage, now)
           node_id == FormatNodeId(out.ret.val.from)
       IN  /\ seen_ids' = out.seen
           /\ peer' = [latest |-> IF out.ret.some
                                  THEN DictSet(peer.latest, node_id,
                                               QueueMerge(DictGet(peer.latest, node_id),
                                                          out.ret.val))
                                  ELSE peer.latest,
                       stage |-> out.stage,
                       admitted |-> IF out.stage \in AdmittedStages
                                    THEN peer.admitted \cup {[id |-> env.id, time |-> now]}
                                    ELSE peer.admitted,
                       pending |-> peer.pending \/ out.ret.some]
    /\ rx' = NoRx
    /\ queued' = None
    /\ UNCHANGED <<now, startup, subs, config, state, timer, entities, sensors,
                   merges, copied, admitted, outbound>>

(***************************************************************************)
(* Time                                                                    *)
(***************************************************************************)
\* a sleeping task whose timer is still to fire
TimerPending == \E i \in 1..Len(tasks) :
    tasks[i].phase = "sleeping" /\ now < tasks[i].wake

\* the event loop has no callback ready to run: every task is inside its sleep
\* (a first step, a resume and the delivery of a cancellation take no time on
\* the scale of this clock; a timer may fire late)
LoopIdle == \A i \in 1..Len(tasks) : tasks[i].phase = "sleeping"

\* a second passes; past the bound only while a timer is pending
Tick(bound) ==
    /\ now < bound \/ TimerPending
    /\ LoopIdle
    /\ now' = now + 1
    /\ rx' = NoRx
    /\ queued' = None
    /\ UNCHANGED <<startup, subs, config, seen_ids, state, timer, entities, sensors,
                   merges, copied, admitted>>
    /\ UNCHANGED outbound
    /\ UNCHANGED peer

(***************************************************************************)
(* Specifications                                                          *)
(***************************************************************************)
\* the messages the broker delivers, up to the time bound
BinaryArrival(envelopes, bound) ==
    /\ now <= bound
    /\ \E env \in envelopes, g \in GarbageOutcomes : _mqtt_message_callback(env, g)

JsonArrival(bound) ==
    /\ now <= bound
    /\ \E msg \in JsonMessages : _mqtt_message_callback_json(msg)

Next ==
    \/ MqttSetup
    \/ StartPoll
    \/ StartTimeout
    \/ \E ok \in BOOLEAN : SubscribeProto(ok)
    \/ \E ok \in BOOLEAN : SubscribeJson(ok)
    \/ BinaryArrival(Envelopes, MaxTime)
    \/ JsonArrival(MaxTime)
    \/ \E i \in 1..Len(tasks) : TaskStart(i)
    \/ \E i \in 1..Len(tasks) : TimerFire(i)
    \/ \E i \in 1..Len(tasks) : TaskCancelled(i)
    \/ \E i \in 1..Len(tasks) : DebounceCommit(i)
    \/ \E n \in tracked_nodes, s \in LastStates : TrackerAdded(n, s)
    \/ \E n \in tracked_nodes, s \in SensorStates : SensorAdded(n, s)
    \/ async_update_friendly_name
    \/ UnloadPlatforms
    \/ async_stop
    \/ Tick(MaxTime)

Spec == Init /\ [][Next]_vars

\* The dedup cache near its capacity and over more than a TTL.  The
\* integration is started and tracks node A only; in the first second the
\* Prefill packets of node B arrived, which packet_receive recorded and the handler
\* then dropped as untracked.
DedupInit ==
    /\ now = 0
    /\ hass_mqtt = TRUE
    /\ start_pc = "started"
    /\ polls = 0
    /\ unsub_proto = TRUE
    /\ unsub_json = TRUE
    /\ tracked_nodes = {FormatNodeId(NodeA)}
    /\ \E debounce_ms \in DebounceMsChoices : debounce_delay = debounce_ms \div 1000
    /\ seen_ids = [i \in 1..Prefill |-> CacheEntry(PrefillId(i), 0)]
    /\ latest = EmptyDict
    /\ snapshot = None
    /\ shared = {}
    /\ tasks = <<>>
    /\ debounce_task = 0
    /\ entities = {}
    /\ sensors = {}
    /\ rx = NoRx
    /\ queued = None
    /\ since_queue = 0
    /\ last_queue = -1
    /\ burst = EmptyDict
    /\ copied = None
    /\ admitted = [i \in 1..Prefill |-> [id |-> PrefillId(i), time |-> 0]]
    /\ built = None
    /\ send = NoCall
    /\ peer = NoPeer

DedupNext ==
    \/ BinaryArrival(DedupEnvelopes, MaxTimeDedup)
    \/ \E i \in 1..Len(tasks) : TaskStart(i)
    \/ \E i \in 1..Len(tasks) : TimerFire(i)
    \/ \E i \in 1..Len(tasks) : TaskCancelled(i)
    \/ \E i \in 1..Len(tasks) : DebounceCommit(i)
    \/ Tick(MaxTimeDedup)

DedupSpec == DedupInit /\ [][DedupNext]_vars

\* Messages that fail, beside messages that do not: the integration is
\* started with an empty dedup cache.
FaultInit ==
    /\ now = 0
    /\ hass_mqtt = TRUE
    /\ start_pc = "started"
    /\ polls = 0
    /\ unsub_proto = TRUE
    /\ unsub_json = TRUE
    /\ tracked_nodes \in TrackedChoices
    /\ \E debounce_ms \in DebounceMsChoices : debounce_delay = debounce_ms \div 1000
    /\ seen_ids = <<>>
    /\ latest = EmptyDict
    /\ snapshot = None
    /\ shared = {}
    /\ tasks = <<>>
    /\ debounce_task = 0
    /\ entities = {}
    /\ sensors = {}
    /\ rx = NoRx
    /\ queued = None
    /\ since_queue = 0
    /\ last_queue = -1
    /\ burst = EmptyDict
    /\ copied = None
    /\ admitted = <<>>
    /\ built = None
    /\ send = NoCall
    /\ peer = NoPeer

FaultNext ==
    \/ BinaryArrival(FaultEnvelopes, MaxTime)
    \/ JsonArrival(MaxTime)
    \/ \E i \in 1..Len(tasks) : TaskStart(i)
    \/ \E i \in 1..Len(tasks) : TimerFire(i)
    \/ \E i \in 1..Len(tasks) : TaskCancelled(i)
    \/ \E i \in 1..Len(tasks) : DebounceCommit(i)
    \/ Tick(MaxTime)

FaultSpec == FaultInit /\ [][FaultNext]_vars

\* The fields of the record that convert_envelope_to_json derives, on a
\* started integration with an empty dedup cache.
FieldNext ==
    \/ BinaryArrival(FieldEnvelopes, MaxTime)
    \/ \E i \in 1..Len(tasks) : TaskStart(i)
    \/ \E i \in 1..Len(tasks) : TimerFire(i)
    \/ \E i \in 1..Len(tasks) : TaskCancelled(i)
    \/ \E i \in 1..Len(tasks) : DebounceCommit(i)
    \/ Tick(MaxTime)

FieldSpec == FaultInit /\ [][FieldNext]_vars

\* Two coordinators of one Home Assistant instance, both started, that the
\* broker delivers the same packets to.
PeerNext ==
    \/ BinaryArrival(Envelopes, MaxTime)
    \/ /\ now <= MaxTime
       /\ \E env \in Envelopes, g \in GarbageOutcomes : PeerCallback(env, g)
    \/ \E i \in 1..Len(tasks) : TaskStart(i)
    \/ \E i \in 1..Len(tasks) : TimerFire(i)
    \/ \E i \in 1..Len(tasks) : TaskCancelled(i)
    \/ \E i \in 1..Len(tasks) : DebounceCommit(i)
    \/ Tick(MaxTime)

PeerSpec == FaultInit /\ [][PeerNext]_vars

\* The device tracker of a started integration: entities are added, packets
\* of their node arrive and the listeners are notified.
TrackerNext ==
    \/ BinaryArrival(TrackerEnvelopes, MaxTime)
    \/ \E i \in 1..Len(tasks) : TaskStart(i)
    \/ \E i \in 1..Len(tasks) : TimerFire(i)
    \/ \E i \in 1..Len(tasks) : TaskCancelled(i)
    \/ \E i \in 1..Len(tasks) : DebounceCommit(i)
    \/ \E n \in tracked_nodes, s \in LastStates : TrackerAdded(n, s)
    \/ async_update_friendly_name
    \/ Tick(MaxTime)

TrackerSpec == FaultInit /\ [][TrackerNext]_vars

\* The round trip of a text through build_encrypted_envelope and
\* packet_receive, on a started integration with an empty dedup cache.
LoopbackNext ==
    \/ \E text \in Texts, from_id \in {NodeA, NodeB}, to_id \in {U32Max, NodeB},
          channel \in {0, 1}, key_b64 \in KeyChoices, packet_id \in PacketIds :
            LoopbackBuild(text, from_id, to_id, channel, key_b64, packet_id)
    \/ \E key_b64 \in KeyChoices, g \in GarbageOutcomes : LoopbackReceive(key_b64, g)

LoopbackSpec == FaultInit /\ [][LoopbackNext]_vars

\* The send_packet service of a started integration.
SendNext ==
    \E text \in TextChoices, from_id \in FromIdChoices, to_id \in ToIdChoices,
       channel \in ChannelChoices :
        handle_send_packet(text, from_id, to_id, channel)

SendSpec == FaultInit /\ [][SendNext]_vars

\* The event loop runs every callback that is ready, and time passes: a task
\* that can take its first step, be resumed or be cancelled is, a timer that
\* is due fires, messages arrive at a finite rate (the loop runs out of ready
\* callbacks again and again) and the clock advances.
Starts == \E i \in 1..Len(tasks) : TaskStart(i)
Fires == \E i \in 1..Len(tasks) : TimerFire(i)
Cancels == \E i \in 1..Len(tasks) : TaskCancelled(i)
Commits == \E i \in 1..Len(tasks) : DebounceCommit(i)

FairSpec ==
    /\ Spec
    /\ WF_vars(Starts)
    /\ WF_vars(Fires)
    /\ WF_vars(Cancels)
    /\ WF_vars(Commits)
    /\ SF_vars(Tick(MaxTime))
    /\ []<>LoopIdle

\* async_start is a coroutine of the event loop: its sleep of 5 s ends and the
\* loop resumes it, so an iteration of its wait loop that can run does.
StartSpec ==
    /\ Spec
    /\ WF_vars(StartPoll)
    /\ WF_vars(StartTimeout)

(***************************************************************************)
(* Properties: what the steps of a behaviour are                           *)
(***************************************************************************)
\* this step is a call of async_set_updated_data
Emission == since_queue' = since_queue + 1

\* this step handed packet_receive an envelope that carries a packet
PacketArrival == rx'.stage \in {"rejected"} \cup AdmittedStages

\* this step called _queue_update
Merge == queued'.some

\* id is an unexpired entry of the dedup cache
Cached(id) ==
    \E i \in 1..Len(seen_ids) : seen_ids[i].key = id /\ now < seen_ids[i].expires

\* the position in admitted of the last admission of id, 0 if there is none
LastAdmission(id) ==
    LET at == {i \in 1..Len(admitted) : admitted[i].id = id}
    IN  IF at = {} THEN 0 ELSE CHOOSE i \in at : \A j \in at : j <= i

\* the debounce tasks that were created and are neither finished nor cancelled
OutstandingTasks ==
    {i \in 1..Len(tasks) : tasks[i].phase \in {"new", "sleeping", "ready"}}

(***************************************************************************)
(* Debounce                                                                *)
(***************************************************************************)
\* every field merged since the last emission is in the snapshot just emitted
BurstInSnapshot ==
    /\ snapshot'.some
    /\ \A n \in DOMAIN burst :
        /\ n \in DOMAIN snapshot'.val
        /\ \A k \in DOMAIN burst[n] :
            /\ k \in DOMAIN snapshot'.val[n]
            /\ snapshot'.val[n][k] = burst[n][k]

\* C1: debounce coalescing.  A run of _queue_update calls, each less than the
\* delay after the one before, is answered by exactly one call of
\* async_set_updated_data: a snapshot is emitted only when no snapshot was
\* emitted since the last call and the delay has elapsed since that call, it
\* holds every field the calls merged, and (unless the coordinator is stopped
\* first) it is emitted eventually.
C1_DebounceCoalescing ==
    /\ [][Emission =>
            /\ since_queue = 0
            /\ last_queue >= 0
            /\ now >= last_queue + debounce_delay
            /\ BurstInSnapshot]_vars
    /\ (last_queue >= 0 /\ since_queue = 0)
          ~> (since_queue = 1 \/ start_pc = "stopped")

\* a snapshot was emitted for a run of two calls for different devices
C1_Witness ==
    /\ since_queue = 1
    /\ snapshot.some
    /\ DOMAIN snapshot.val = {FormatNodeId(NodeA), FormatNodeId(NodeB)}
    /\ "text" \in DOMAIN snapshot.val[FormatNodeId(NodeB)]
    /\ "PDOP" \in DOMAIN snapshot.val[FormatNodeId(NodeA)]
    /\ now = last_queue + debounce_delay

\* C2: at most one debounce task is outstanding (created, not finished and not
\* cancelled) in every reachable state, and every _queue_update leaves the
\* tasks scheduled before it cancelled and the task it creates as the only
\* outstanding one.
C2_AtMostOneOutstanding ==
    /\ [](Cardinality(OutstandingTasks) <= 1)
    /\ [][Merge =>
            /\ Len(tasks') = Len(tasks) + 1
            /\ \A i \in 1..Len(tasks) : tasks'[i].phase = "cancelling"
            /\ tasks'[Len(tasks')].phase = "new"
            /\ debounce_task' = Len(tasks')]_vars

\* a _queue_update has just cancelled a pending task and scheduled a new one
C2_Witness ==
    /\ queued.some
    /\ Len(tasks) >= 2
    /\ tasks[Len(tasks) - 1].phase = "cancelling"
    /\ Cardinality(OutstandingTasks) = 1

(***************************************************************************)
(* Dedup                                                                   *)
(***************************************************************************)
\* the id of this step's packet was admitted before, less than the TTL ago
AdmittedWithinTtl ==
    /\ LastAdmission(rx'.id) > 0
    /\ now < admitted[LastAdmission(rx'.id)].time + ttl

\* this step's packet is discarded: nothing is recorded and nothing is merged
Discarded ==
    /\ rx'.stage = "rejected"
    /\ ~Merge
    /\ UNCHANGED <<seen_ids, latest, admitted>>

\* C3 as stated: for any packet id and whatever was received in between, of two
\* envelopes with the same id less than 10 seconds apart the first is processed
\* and the second is rejected, with nothing merged.
C3_Original ==
    [][PacketArrival =>
        /\ LastAdmission(rx'.id) = 0 => rx'.stage \in AdmittedStages
        /\ AdmittedWithinTtl => Discarded]_vars

\* C3: dedup within the TTL.  For any packet id other than 0, the first
\* envelope with that id is processed, and an envelope with the same id that
\* arrives less than 10 seconds after the id was admitted is rejected, with
\* nothing merged, provided fewer than 100 other packets were admitted in
\* between.
C3_DedupWithinTtl ==
    [][(PacketArrival /\ rx'.id # U32Zero) =>
        /\ LastAdmission(rx'.id) = 0 => rx'.stage \in AdmittedStages
        /\ (AdmittedWithinTtl
            /\ Len(admitted) - LastAdmission(rx'.id) < maxsize) => Discarded]_vars

\* the greatest id is rejected seconds after it was admitted, with another
\* packet admitted in between
C3_Witness ==
    /\ rx.stage = "rejected"
    /\ rx.id = U32Max
    /\ LastAdmission(U32Max) > 0
    /\ LastAdmission(U32Max) < Len(admitted)
    /\ admitted[LastAdmission(U32Max)].time < now
    /\ now < admitted[LastAdmission(U32Max)].time + ttl

\* C4: dedup expiry.  An envelope whose id was admitted more than 10 seconds
\* (the TTL) ago is admitted again.
C4_DedupExpiry ==
    [][(/\ PacketArrival
        /\ LastAdmission(rx'.id) > 0
        /\ now > admitted[LastAdmission(rx'.id)].time + ttl)
        => rx'.stage \in AdmittedStages]_vars

\* the greatest id is admitted a second time, more than the TTL after the first
C4_Witness ==
    /\ rx.stage \in AdmittedStages
    /\ rx.id = U32Max
    /\ \E i, j \in 1..Len(admitted) :
        /\ admitted[i].id = U32Max
        /\ admitted[j].id = U32Max
        /\ admitted[j].time > admitted[i].time + ttl

\* the id of this step's packet is recorded: an unexpired entry after the step
Recorded ==
    \E i \in 1..Len(seen_ids') :
        seen_ids'[i].key = rx'.id /\ now < seen_ids'[i].expires

\* C5 as stated: for every 32-bit packet id, 0 to 2^32-1, the packet is admitted
\* and its id recorded if the id is not an unexpired entry of the cache, and
\* rejected only if it is.
C5_Original ==
    [][PacketArrival =>
        IF Cached(rx'.id)
        THEN rx'.stage = "rejected" /\ seen_ids' = seen_ids
        ELSE rx'.stage \in AdmittedStages /\ Recorded]_vars

\* C5: admission over the id domain.  For every packet id from 1 to 2^32-1 the
\* packet is admitted and its id recorded if the id is not an unexpired entry
\* of the cache, and rejected (the cache unchanged) if it is; a packet with
\* id 0 is always rejected and 0 is never recorded.
C5_AdmissionContract ==
    [][PacketArrival =>
        IF rx'.id = U32Zero \/ Cached(rx'.id)
        THEN rx'.stage = "rejected" /\ seen_ids' = seen_ids
        ELSE rx'.stage \in AdmittedStages /\ Recorded]_vars

\* a packet with id 0 is rejected while the greatest id is an unexpired entry
C5_Witness ==
    /\ rx.stage = "rejected"
    /\ rx.id = U32Zero
    /\ Cached(U32Max)
    /\ ~Cached(U32Zero)

\* the ids the cache holds
Held(c) == {c[i].key : i \in 1..Len(c)}

\* C6: dedup capacity.  The cache never holds more than 100 ids, and when an id
\* is admitted while the cache holds 100 unexpired ids, exactly one entry is
\* evicted: the one admitted earliest, whatever was looked up since.
C6_DedupCapacity ==
    /\ [](Len(seen_ids) <= maxsize /\ Cardinality(Held(seen_ids)) = Len(seen_ids))
    /\ [][(/\ rx'.stage \in AdmittedStages
           /\ Len(seen_ids) = maxsize
           /\ \A i \in 1..Len(seen_ids) : now < seen_ids[i].expires)
          => /\ Len(seen_ids') = maxsize
             /\ rx'.id \in Held(seen_ids')
             /\ \E k \in Held(seen_ids) :
                 /\ Held(seen_ids) \ Held(seen_ids') = {k}
                 /\ \A o \in Held(seen_ids) :
                     LastAdmission(k) <= LastAdmission(o)]_vars

\* the cache is full and the earliest packet's id was evicted for the greatest
C6_Witness ==
    /\ rx.stage \in AdmittedStages
    /\ rx.id = U32Max
    /\ Len(seen_ids) = maxsize
    /\ PrefillId(1) \notin Held(seen_ids)
    /\ PrefillId(2) \in Held(seen_ids)

(***************************************************************************)
(* Pipeline order and DeviceState                                          *)
(***************************************************************************)
\* C7: pipeline order.  A packet the dedup check rejects (its id is 0 or an
\* unexpired entry of the cache) is discarded before any further processing:
\* it reaches neither the decryption nor the interpretation, nothing is
\* merged into latest and the debounce task is left as it is.
C7_RejectedBeforeProcessing ==
    [][(PacketArrival /\ (rx'.id = U32Zero \/ Cached(rx'.id))) =>
        /\ rx'.stage \notin AdmittedStages
        /\ ~Merge
        /\ UNCHANGED <<seen_ids, admitted, latest, snapshot, tasks,
                       debounce_task, last_queue, burst>>]_vars

\* a packet is rejected while the debounce task of an earlier one sleeps
C7_Witness ==
    /\ rx.stage = "rejected"
    /\ rx.id = IdTwo
    /\ debounce_task # 0
    /\ tasks[debounce_task].phase = "sleeping"
    /\ last_queue < now

\* C8: shallow merge with frame.  After _queue_update(d, f) the entry of d maps
\* every key of f to its value in f, every other key of d keeps the value it
\* had, the entry of every other device is unchanged, and a device without an
\* entry gets one that holds exactly f.
C8_ShallowMerge ==
    [][Merge =>
        LET d == queued'.val.node_id
            f == queued'.val.new_data
        IN  /\ DOMAIN latest' = DOMAIN latest \cup {d}
            /\ \A k \in DOMAIN f :
                k \in DOMAIN latest'[d] /\ latest'[d][k] = f[k]
            /\ d \in DOMAIN latest =>
                /\ DOMAIN latest'[d] = DOMAIN latest[d] \cup DOMAIN f
                /\ \A k \in DOMAIN latest[d] \ DOMAIN f :
                    latest'[d][k] = latest[d][k]
            /\ d \notin DOMAIN latest => latest'[d] = f
            /\ \A e \in DOMAIN latest \ {d} : latest'[e] = latest[e]]_vars

\* a position was merged into a device that had a text, beside another device
C8_Witness ==
    /\ queued.some
    /\ queued.val.node_id = FormatNodeId(NodeA)
    /\ "PDOP" \in DOMAIN queued.val.new_data
    /\ "text" \in DOMAIN latest[FormatNodeId(NodeA)]
    /\ latest[FormatNodeId(NodeA)]["type"] = "position"
    /\ FormatNodeId(NodeB) \in DOMAIN latest

\* C9: DeviceState is monotone.  No step removes a device id from latest or a
\* field name from a device's entry.
C9_Monotone ==
    [][\A n \in DOMAIN latest :
        /\ n \in DOMAIN latest'
        /\ DOMAIN latest[n] \subseteq DOMAIN latest'[n]]_vars

\* after messages, an emission, the restores and the stop, the device has the
\* fields of all of them
C9_Witness ==
    /\ start_pc = "stopped"
    /\ snapshot.some
    /\ FormatNodeId(NodeA) \in DOMAIN latest
    /\ {"text", "PDOP", "latitude", "battery_level"}
           \subseteq DOMAIN latest[FormatNodeId(NodeA)]

\* C10 as stated: the snapshot handed to the listeners keeps the content it was
\* copied with, whatever is merged or written into latest afterwards.
C10_SnapshotImmutable == snapshot.some => snapshot.val = copied.val

(***************************************************************************)
(* Emission and shutdown                                                   *)
(***************************************************************************)
\* C11: emission only from Scheduled.  A snapshot is emitted only by the
\* pending debounce task (coordinator._debounce_task, not done), only when a
\* merge happened since the previous emission (or since start); without a
\* pending task nothing is emitted, so never two emissions follow one merge
\* and none comes before the first merge.
C11_EmissionOnlyScheduled ==
    /\ [][Emission =>
            /\ debounce_task # 0
            /\ tasks[debounce_task].phase = "ready"
            /\ burst # EmptyDict
            /\ debounce_task' = 0
            /\ burst' = EmptyDict]_vars
    /\ [](since_queue <= 1)
    /\ [](last_queue < 0 => since_queue = 0 /\ ~snapshot.some)

\* the coordinator is idle after an emission and time has passed since: no
\* second emission came
C11_Witness ==
    /\ since_queue = 1
    /\ tasks = <<>>
    /\ debounce_task = 0
    /\ snapshot.some
    /\ now > last_queue + debounce_delay

\* C12: debounce liveness.  Every merge leaves fields that wait for an
\* emission, they stop waiting only by an emission, and (unless the
\* coordinator is stopped) a snapshot is emitted eventually that holds the
\* whole of DeviceState as the last merge left it: no merge is lost.
C12_DebounceLiveness ==
    /\ [][Merge => burst' # EmptyDict]_vars
    /\ [][(burst # EmptyDict /\ burst' = EmptyDict) => Emission]_vars
    /\ (burst # EmptyDict)
          ~> (start_pc = "stopped" \/ (burst = EmptyDict /\ snapshot = Some(latest)))

\* the messages of both devices were emitted while the entry is being unloaded
C12_Witness ==
    /\ start_pc = "unloading"
    /\ burst = EmptyDict
    /\ snapshot = Some(latest)
    /\ DOMAIN latest = {FormatNodeId(NodeA), FormatNodeId(NodeB)}
    /\ "type" \in DOMAIN latest[FormatNodeId(NodeA)]
    /\ latest[FormatNodeId(NodeA)]["type"] = "text_message"

\* C13: shutdown.  async_stop leaves no debounce task outstanding (a pending
\* one is cancelled), emits nothing itself and leaves DeviceState and the
\* last snapshot as they were; once it has run no snapshot is emitted, so
\* fields merged but not emitted at the stop stay unemitted.
C13_Shutdown ==
    /\ [][(start_pc # "stopped" /\ start_pc' = "stopped") =>
            /\ \A i \in 1..Len(tasks') : tasks'[i].phase = "cancelling"
            /\ ~Emission
            /\ UNCHANGED <<latest, snapshot, burst>>]_vars
    /\ [][start_pc = "stopped" => (~Emission /\ snapshot' = snapshot)]_vars
    /\ [](start_pc = "stopped" => OutstandingTasks = {})

\* the stop came while a task was scheduled: the task ended, the delay has
\* passed and the merged fields were not emitted
C13_Witness ==
    /\ start_pc = "stopped"
    /\ burst # EmptyDict
    /\ tasks = <<>>
    /\ since_queue = 0
    /\ ~snapshot.some
    /\ now >= last_queue + debounce_delay

(***************************************************************************)
(* Errors of one message                                                   *)
(***************************************************************************)
\* the stages at which packet_receive gives up on a payload
FailedStages == {"parse_failed", "no_packet", "decrypt_failed", "convert_failed"}

\* the JSON messages whose handling raises inside the handler
FailedJson == {msg \in JsonMessages : ~msg.json_ok \/ ~msg.from.some \/ ~msg.to.some}

\* what a handler that drops its message leaves alone
Isolated ==
    /\ ~queued'.some
    /\ UNCHANGED <<latest, snapshot, tasks, debounce_task, burst, last_queue>>
    /\ UNCHANGED <<unsub_proto, unsub_json, start_pc>>

\* C14: per-message error isolation.  A binary message whose parsing,
\* decryption or interpretation fails, and a JSON message whose handling
\* raises, end their handler without a merge: DeviceState, the snapshot and
\* the debounce tasks are as before (no task created, none cancelled), and
\* both subscriptions stay in place for the next message.
C14_ErrorIsolation ==
    /\ [][rx'.stage \in FailedStages => Isolated]_vars
    /\ [][\A msg \in FailedJson : _mqtt_message_callback_json(msg) => Isolated]_vars

\* a payload failed to decrypt while the task of an earlier message sleeps on
C14_Witness ==
    /\ rx.stage = "decrypt_failed"
    /\ debounce_task # 0
    /\ tasks[debounce_task].phase = "sleeping"
    /\ now > last_queue
    /\ FormatNodeId(NodeA) \in DOMAIN latest

\* the keys of the envelope-level metadata
MetaKeys == {"from", "rx_snr", "rx_rssi", "hops_taken", "sender", "packet_id", "rx_time"}

\* the Data message the pipeline converts for env: None when there is none
DecodedOf(env, g) ==
    IF ~env.parse_ok \/ ~env.has_packet THEN None
    ELSE IF env.variant = "encrypted"
    THEN try_encrypt_envelope(env, encryption_key, g)
    ELSE Some(env.decoded)

\* env reaches the converter with a port that has no entry in _converters
UnknownPort(env, g) ==
    /\ DecodedOf(env, g).some
    /\ DecodedOf(env, g).val.portnum \notin ConverterPorts

\* C15: unknown port.  For a packet whose port has no converter,
\* convert_envelope_to_json returns the record of exactly the seven metadata
\* keys (no type, no typed field) and no error; when the packet passes the
\* dedup check and the tracked-node filter, the handler merges that record
\* into DeviceState and schedules an emission.
C15_UnknownPort ==
    /\ [](\A env \in FaultEnvelopes, g \in GarbageOutcomes :
            UnknownPort(env, g) =>
                LET obj == convert_envelope_to_json(env, DecodedOf(env, g).val)
                IN  /\ obj.some
                    /\ DOMAIN obj.val = MetaKeys
                    /\ obj.val = EnvelopeMeta(env))
    /\ [][\A env \in FaultEnvelopes, g \in GarbageOutcomes :
            (/\ UnknownPort(env, g)
             /\ ~Rejected(seen_ids, env.id, now)
             /\ Tracked(FormatNodeId(env.from))
             /\ _mqtt_message_callback(env, g)) =>
                /\ rx'.stage = "converted"
                /\ queued' = Some([node_id |-> FormatNodeId(env.from),
                                    new_data |-> EnvelopeMeta(env)])
                /\ \A k \in MetaKeys :
                      latest'[FormatNodeId(env.from)][k] = EnvelopeMeta(env)[k]
                /\ tasks'[Len(tasks')] = NewTask
                /\ debounce_task' = Len(tasks')]_vars

\* a packet of a port without converter was merged into a device that had a
\* text, and its emission is scheduled
C15_Witness ==
    /\ rx.stage = "converted"
    /\ queued.some
    /\ queued.val.node_id = FormatNodeId(NodeA)
    /\ DOMAIN queued.val.new_data = MetaKeys
    /\ "text" \in DOMAIN latest[FormatNodeId(NodeA)]
    /\ latest[FormatNodeId(NodeA)]["text"] = "hello"
    /\ latest[FormatNodeId(NodeA)]["packet_id"] = IdTwo
    /\ tasks[debounce_task].phase = "new"

(***************************************************************************)
(* Encryption                                                              *)
(***************************************************************************)
\* the round trip was made with the key the envelope was built with
Looped ==
    /\ built.some
    /\ built.val.out.some
    /\ built.val.out.val.key_b64 = built.val.key_b64

\* packet_receive returned the text record of what was built
TextReturned ==
    LET ret == built.val.out.val.ret
    IN  /\ ret.some
        /\ "type" \in DOMAIN ret.val
        /\ ret.val["type"] = "text_message"
        /\ ret.val["text"] = built.val.text
        /\ ret.val["from"] = built.val.from_id

\* C16 as stated: end-to-end round trip.  For every text, sender, recipient,
\* channel and packet id that build_encrypted_envelope can draw, packet_receive
\* with the same key returns, for the serialized envelope, a record of type
\* text_message with the original text and the sender as from.
C16_RoundTrip == Looped => TextReturned

\* plaintexts of several lengths, one of them longer than a cipher block
Plaintexts ==
    {<<>>, SerializeData(""), SerializeData("hello"),
     <<1, 2, 3, 4, 5, 6, 7, 8, 9, 10, 11, 12, 13, 14, 15, 16, 255>>}

\* C17: crypto round trip.  With the cipher as XOR with a keystream of (key,
\* nonce): both sides derive the nonce as the packet id in 8 little-endian
\* bytes followed by the source id in 8 little-endian bytes, the ciphertext
\* is as long as the plaintext, and decrypting with the same packet id,
\* source id and key returns the plaintext, for every plaintext length.
C17_CryptoRoundTrip ==
    (built.some /\ built.val.msg.some) =>
        LET key == KeyBytes(built.val.key_b64).val
            id == built.val.packet_id
            from == built.val.from_id
            sent == BuildNonce(id, from)
            env == ParseFromString(built.val.msg.val)
            received == DecryptNonce(env)
        IN  /\ sent = <<id[4], id[3], id[2], id[1], 0, 0, 0, 0,
                        from[4], from[3], from[2], from[1], 0, 0, 0, 0>>
            /\ received = sent
            /\ \A pt \in Plaintexts :
                /\ Len(AesCtr(key, sent, pt)) = Len(pt)
                /\ AesCtr(key, received, AesCtr(key, sent, pt)) = pt
            /\ Len(env.encrypted.ciphertext) = Len(SerializeData(built.val.text))
            /\ AesCtr(key, received, env.encrypted.ciphertext)
                   = SerializeData(built.val.text)

\* a text was encrypted under a key of its own with a packet id whose bytes
\* differ, and the ciphertext is not the plaintext
C17_Witness ==
    /\ built.some
    /\ built.val.msg.some
    /\ built.val.key_b64 = "AAECAwQFBgcICQoLDA0ODw=="
    /\ built.val.packet_id = U32(1, 0, 0, 0)
    /\ built.val.text = "hello"
    /\ Len(built.val.msg.val["encrypted"].ciphertext) = 9
    /\ built.val.msg.val["encrypted"].ciphertext # SerializeData("hello")
    /\ Looped
    /\ built.val.out.val.stage = "converted"

\* C18: sentinel key.  A key that decodes to the one byte 0x01 stands for the
\* default key: building and decrypting with "AQ==" and with the default key
\* string give the same results; every other decoded key, a one-byte key of
\* another value included, is used as decoded.
C18_SentinelKey ==
    /\ \A k \in KeyChoices :
        KeyBytes(k) = IF B64Decode(k) = Some(<<1>>)
                      THEN Some(DefaultKeyBytes) ELSE B64Decode(k)
    /\ KeyBytes("AQ==") = KeyBytes(DEFAULT_ENC_KEY)
    /\ KeyBytes("Ag==") = Some(<<2>>)
    /\ built.some =>
        /\ build_encrypted_envelope(built.val.text, built.val.from_id,
                                    built.val.to_id, built.val.channel, "AQ==",
                                    built.val.packet_id)
             = build_encrypted_envelope(built.val.text, built.val.from_id,
                                        built.val.to_id, built.val.channel,
                                        DEFAULT_ENC_KEY, built.val.packet_id)
        /\ built.val.msg.some =>
            \A g \in GarbageOutcomes :
                try_encrypt_envelope(ParseFromString(built.val.msg.val), "AQ==", g)
                  = try_encrypt_envelope(ParseFromString(built.val.msg.val),
                                         DEFAULT_ENC_KEY, g)

\* an envelope built with the sentinel key was read with the default key
C18_Witness ==
    /\ built.some
    /\ built.val.key_b64 = "AQ=="
    /\ built.val.out.some
    /\ built.val.out.val.key_b64 = DEFAULT_ENC_KEY
    /\ built.val.out.val.stage = "converted"
    /\ built.val.text = "hello"
    /\ built.val.out.val.ret.val["text"] = "hello"

(***************************************************************************)
(* The send_packet service                                                 *)
(***************************************************************************)
\* chars is "!" followed by eight hexadecimal digits and nothing else
IsNodeId(value) ==
    /\ value.some
    /\ value.val.kind = "str"
    /\ Len(value.val.chars) = 9
    /\ value.val.chars[1] = "!"
    /\ \A i \in 2..9 : HexDigit(value.val.chars[i]) >= 0

\* the channel is an integer in 0..6: an int, the decimal string of one, or
\* left out (the default 0)
IsChannel(value) ==
    \/ ~value.some
    \/ value.val.kind = "int" /\ value.val.v \in 0..6
    \/ value.val.kind = "str" /\ value.val.chars \in DecimalStrings
          /\ IntOf(value.val).val \in 0..6

\* the request passes the four checks as the service documents them
ValidRequest(data) ==
    /\ data.text.some /\ data.text.val # ""
    /\ IsNodeId(data.from_id)
    /\ IsNodeId(data.to_id)
    /\ IsChannel(data.channel)

\* C19 as stated: outbound send.  A valid request publishes exactly one
\* message, to <base_topic>/2/json/mqtt/!<from_id in 8 lowercase hex digits>,
\* whose payload has the request's validated channel, to_id, from_id and text
\* as channel, to, from and payload, and the type sendtext.
C19_OutboundSend ==
    (send.request.some /\ ValidRequest(send.request.val)) =>
        LET data == send.request.val
            msg == send.published[1]
        IN  /\ Len(send.published) = 1
            /\ send.raised = ""
            /\ msg.topic = base_topic \o "/2/json/mqtt/"
                              \o FormatNodeId(ParseHexId(data.from_id.val.chars))
            /\ msg.payload.channel
                 = IF data.channel.some THEN IntOf(data.channel.val).val ELSE 0
            /\ msg.payload.to = ParseHexId(data.to_id.val.chars)
            /\ msg.payload.from = ParseHexId(data.from_id.val.chars)
            /\ msg.payload.payload = data.text.val
            /\ msg.payload.type = "sendtext"

\* C20 as stated: outbound validation.  A request with missing or empty text,
\* with a from_id or to_id that is no node id, or with a channel that is no
\* integer in 0..6 raises a validation error and publishes nothing; a publish
\* happens only after all four checks passed.
C20_OutboundValidation ==
    (send.request.some /\ ~ValidRequest(send.request.val)) =>
        /\ send.raised # ""
        /\ send.published = <<>>

\* C21 as stated: node id validation.  validate_meshtastic_id accepts a value
\* if and only if it is a string of exactly nine characters, "!" followed by
\* eight hexadecimal digits in either case; a value of another length, without
\* the "!", with a non-hex character, with a trailing extra character or of
\* another type is rejected.
C21_NodeIdValidation ==
    send.request.some =>
        \A value \in {send.request.val.from_id, send.request.val.to_id} :
            value.some =>
                (validate_meshtastic_id(value.val).some <=> IsNodeId(value))

(***************************************************************************)
(* Start-up                                                                *)
(***************************************************************************)
\* C22: the startup wait terminates.  async_start polls for the transport at
\* most MaxPolls = 10 times; it goes on to subscribe only from a poll that
\* found the transport ready; when MaxPolls polls found none it ends with
\* UpdateFailed and has subscribed nothing; and it leaves the wait loop in
\* every behaviour.
C22_StartupWaitTerminates ==
    /\ [](polls <= MaxPolls)
    /\ [][(start_pc = "poll" /\ start_pc' = "subscribe_proto")
            => (hass_mqtt /\ polls < MaxPolls)]_vars
    /\ [][((unsub_proto' /\ ~unsub_proto) \/ (unsub_json' /\ ~unsub_json))
            => (hass_mqtt /\ start_pc \in {"subscribe_proto", "subscribe_json"})]_vars
    /\ [][(start_pc = "poll" /\ start_pc' = "failed")
            => (polls = MaxPolls /\ ~unsub_proto' /\ ~unsub_json')]_vars
    /\ <>(start_pc # "poll")

\* the wait ran out: async_start failed with the transport never seen, and
\* nothing is subscribed
C22_Witness ==
    /\ start_pc = "failed"
    /\ ~hass_mqtt
    /\ ~unsub_proto
    /\ ~unsub_json

(***************************************************************************)
(* Derived fields of the record                                            *)
(***************************************************************************)
\* the rational r is the quotient n / d
IsQuotient(r, n, d) == r.num * d = n * r.den

\* the envelopes of FieldEnvelopes are not encrypted: the outcome of a
\* decryption plays no part in what the handler does with them
Undecrypted == "parsed"

\* env carries a decoded Position
IsPosition(env) == env.decoded.portnum = POSITION_APP /\ env.decoded.payload.ok

\* C23: derived hop count.  The packet has no hops_taken field; the record
\* that the handler merges has hops_taken = hop_start - hop_limit as a signed
\* integer, negative when hop_start is smaller than hop_limit.
C23_DerivedHopCount ==
    /\ [](\A env \in FieldEnvelopes : "hops_taken" \notin DOMAIN env)
    /\ [][\A env \in FieldEnvelopes :
            (_mqtt_message_callback(env, Undecrypted) /\ queued'.some) =>
                LET hops == queued'.val.new_data["hops_taken"]
                IN  /\ hops = env.hop_start - env.hop_limit
                    /\ (env.hop_start = 3 /\ env.hop_limit = 1) => hops = 2
                    /\ env.hop_start < env.hop_limit => hops < 0
                    /\ latest'[FormatNodeId(env.from)]["hops_taken"] = hops]_vars

\* a packet with hop_start 0 and hop_limit 7 was merged with hops_taken -7
C23_Witness ==
    /\ rx.stage = "converted"
    /\ queued.some
    /\ queued.val.new_data["hops_taken"] = -7
    /\ latest[FormatNodeId(NodeA)]["hops_taken"] = -7

\* C24: ground_track normalization.  For a Position with the raw ground_track
\* g the record has ground_track = g / 1000 when g > 1000 and g itself when
\* g <= 1000: 1000 stays 1000, 1500 gives 1.5 and 45 stays 45.
C24_GroundTrack ==
    [][\A env \in FieldEnvelopes :
        (IsPosition(env) /\ _mqtt_message_callback(env, Undecrypted) /\ queued'.some) =>
            LET gt == env.decoded.payload.val.ground_track
                out == queued'.val.new_data["ground_track"]
            IN  /\ gt > 1000 => IsQuotient(out, gt, 1000)
                /\ gt <= 1000 => IsQuotient(out, gt, 1)
                /\ gt = 1000 => IsQuotient(out, 1000, 1)
                /\ gt = 1500 => IsQuotient(out, 3, 2)
                /\ gt = 45 => IsQuotient(out, 45, 1)]_vars

\* a Position with the boundary value 1000 was merged with ground_track 1000
C24_Witness ==
    /\ rx.stage = "converted"
    /\ queued.some
    /\ "ground_track" \in DOMAIN queued.val.new_data
    /\ IsQuotient(queued.val.new_data["ground_track"], 1000, 1)
    /\ IsQuotient(latest[queued.val.node_id]["ground_track"], 1000, 1)

\* C25: PDOP normalization.  For a Position with the raw PDOP p the record has
\* PDOP = p / 10 when p > 50 and p itself when p <= 50: 50 stays 50 and 297
\* gives 29.7.
C25_Pdop ==
    [][\A env \in FieldEnvelopes :
        (IsPosition(env) /\ _mqtt_message_callback(env, Undecrypted) /\ queued'.some) =>
            LET val == env.decoded.payload.val.PDOP
                out == queued'.val.new_data["PDOP"]
            IN  /\ val > 50 => IsQuotient(out, val, 10)
                /\ val <= 50 => IsQuotient(out, val, 1)
                /\ val = 50 => IsQuotient(out, 50, 1)
                /\ val = 297 => IsQuotient(out, 297, 10)]_vars

\* a Position with the raw PDOP 297 was merged with PDOP 29.7
C25_Witness ==
    /\ rx.stage = "converted"
    /\ queued.some
    /\ "PDOP" \in DOMAIN queued.val.new_data
    /\ IsQuotient(queued.val.new_data["PDOP"], 297, 10)
    /\ IsQuotient(latest[queued.val.node_id]["PDOP"], 297, 10)

(***************************************************************************)
(* Two coordinators                                                        *)
(***************************************************************************)
\* the second coordinator itself admitted a packet with this id within the
\* last ttl seconds
PeerAdmitted(id) == \E a \in peer.admitted : a.id = id /\ now - a.time < ttl

\* C26 as stated: independent trackers do not share state.  Whether the second
\* coordinator admits a packet depends on the packets it admitted itself, not
\* on those the first one admitted: a packet with a non-zero id that the second
\* coordinator did not admit within the TTL is not rejected as a duplicate.
\* A merge of one coordinator leaves the latest of the other as it is.
C26_IndependentTrackers ==
    /\ [][\A env \in Envelopes, g \in GarbageOutcomes :
            (PeerCallback(env, g) /\ ~PeerAdmitted(env.id)) =>
                peer'.stage # "rejected"]_vars
    /\ [][(peer' # peer) => (latest' = latest)]_vars
    /\ [][(latest' # latest) => (peer'.latest = peer.latest)]_vars

(***************************************************************************)
(* Cancelled timers                                                        *)
(***************************************************************************)
\* the delay of task t has elapsed and t has not been resumed
Elapsed(t) == t.phase = "ready" \/ (t.phase = "sleeping" /\ t.wake <= now)

\* the tasks that cancel() was called for and that have not ended
CancelledTasks(ts) == {i \in 1..Len(ts) : ts[i].phase = "cancelling"}

\* C27: cancelled timers never emit.  A merge cancels the task before it also
\* when that task's delay has elapsed and it has not resumed; a cancelled task
\* ends without an emission; every emission is the step of the task created
\* last, by the last merge, and that merge lies a whole delay before it, so
\* none lies between the end of the task's wait and the emission.
C27_CancelledNeverEmit ==
    /\ [][Merge => \A i \in 1..Len(tasks) :
                       Elapsed(tasks[i]) => tasks'[i].phase = "cancelling"]_vars
    /\ [][Emission =>
            /\ debounce_task = Len(tasks)
            /\ tasks[debounce_task].phase = "ready"
            /\ tasks[debounce_task].wake = last_queue + debounce_delay
            /\ last_queue + debounce_delay <= now
            /\ tasks' = Finish(tasks, debounce_task)
            /\ Cardinality(CancelledTasks(tasks')) = Cardinality(CancelledTasks(tasks))]_vars
    /\ [](\A i \in 1..Len(tasks) : i # debounce_task => tasks[i].phase = "cancelling")

\* two packets were merged and no JSON message ever was; the second came a
\* whole delay after the first, whose task had not emitted: that task is
\* cancelled and the task of the second merge is the pending one
C27_Witness ==
    /\ \A n \in DOMAIN latest : "topic" \notin DOMAIN latest[n]
    /\ Len(admitted) = 2
    /\ admitted[1].time + debounce_delay <= admitted[2].time
    /\ admitted[2].time = now
    /\ last_queue = now
    /\ queued.some
    /\ ~snapshot.some
    /\ tasks = <<CancellingTask, NewTask>>
    /\ debounce_task = 2

(***************************************************************************)
(* The tracked-node filter                                                 *)
(***************************************************************************)
\* the sender of a message is not one of a non-empty tracked_nodes
Filtered(from) == tracked_nodes # {} /\ FormatNodeId(from) \notin tracked_nodes

\* C28: tracked-node filter.  With a non-empty tracked_nodes a binary or JSON
\* message whose sender is not in tracked_nodes changes neither DeviceState
\* nor the debounce timer, and every key of latest is in tracked_nodes; with
\* an empty tracked_nodes the record of every sender is merged.
C28_TrackedNodeFilter ==
    /\ [](tracked_nodes # {} => DOMAIN latest \subseteq tracked_nodes)
    /\ [][\A env \in Envelopes :
            Filtered(env.from) =>
                \A g \in GarbageOutcomes :
                    _mqtt_message_callback(env, g) => UNCHANGED <<state, timer>>]_vars
    /\ [][\A msg \in JsonMessages :
            (msg.json_ok /\ msg.from.some /\ Filtered(msg.from.val)) =>
                (_mqtt_message_callback_json(msg) => UNCHANGED <<state, timer>>)]_vars
    /\ [][(tracked_nodes = {} /\ rx'.stage = "converted") =>
            (queued'.some /\ queued'.val.node_id \in DOMAIN latest')]_vars
    /\ [][\A msg \in JsonMessages :
            (/\ tracked_nodes = {}
             /\ msg.json_ok /\ msg.from.some /\ msg.to.some /\ msg.text # ""
             /\ _mqtt_message_callback_json(msg)) =>
                /\ queued'.some
                /\ queued'.val.node_id = FormatNodeId(msg.from.val)
                /\ latest'[FormatNodeId(msg.from.val)]["text"] = msg.text]_vars

\* node B is not tracked: its position was converted and dropped, beside the
\* state and the pending task that a packet of node A left
C28_Witness ==
    /\ tracked_nodes = {FormatNodeId(NodeA)}
    /\ rx.stage = "converted"
    /\ ~queued.some
    /\ DOMAIN latest = {FormatNodeId(NodeA)}
    /\ debounce_task # 0
    /\ tasks[debounce_task].phase = "sleeping"

(***************************************************************************)
(* Admitted and dropped                                                    *)
(***************************************************************************)
\* this step admitted a packet and merged nothing: its payload did not
\* decrypt or did not decode, or its sender is not tracked
Dropped == rx'.stage \in AdmittedStages /\ ~queued'.some

C30_FailedStartNoSubscription ==
    /\ [](start_pc = "failed" => (~unsub_proto /\ ~unsub_json))
    /\ [][start_pc = "failed" => (rx'.stage = "none" /\ ~queued'.some)]_vars

(***************************************************************************)
(* The JSON path                                                           *)
(***************************************************************************)
\* the JSON message parses and its sender passes the tracked-node filter
AcceptedSender(msg) ==
    msg.json_ok /\ msg.from.some /\ Tracked(FormatNodeId(msg.from.val))

\* the keys of the dict that the JSON handler merges
JsonKeys == {"text", "txt_time", "text_to", "topic"}

\* C31 as stated: the JSON path.  A JSON message of an accepted sender with a
\* non-empty payload.text merges exactly the fields text, txt_time, text_to
\* and topic into the sender's state and schedules the debounce task anew,
\* with the dedup cache neither read nor written; a JSON message whose text
\* is missing or empty changes neither DeviceState nor the debounce timer.
C31_JsonPath ==
    /\ [][\A msg \in JsonMessages :
            (AcceptedSender(msg) /\ msg.text # ""
             /\ _mqtt_message_callback_json(msg)) =>
                /\ queued'.some
                /\ queued'.val.node_id = FormatNodeId(msg.from.val)
                /\ DOMAIN queued'.val.new_data = JsonKeys
                /\ queued'.val.new_data["text"] = msg.text
                /\ \A k \in JsonKeys :
                      latest'[queued'.val.node_id][k] = queued'.val.new_data[k]
                /\ tasks'[Len(tasks')] = NewTask
                /\ debounce_task' = Len(tasks')
                /\ seen_ids' = seen_ids]_vars
    /\ [][\A msg \in JsonMessages :
            (AcceptedSender(msg) /\ msg.text = ""
             /\ _mqtt_message_callback_json(msg)) =>
                UNCHANGED <<state, timer, seen_ids>>]_vars

(***************************************************************************)
(* The published location                                                  *)
(***************************************************************************)
\* the node's dict has both coordinates of a position, and its PDOP is absent
\* or within the thresholds (0.5 <= PDOP <= 8.0)
LocationAccepted(d) ==
    /\ {"latitude_i", "longitude_i"} \subseteq DOMAIN d
    /\ "PDOP" \in DOMAIN d =>
          /\ 2 * d["PDOP"].num >= d["PDOP"].den
          /\ d["PDOP"].num <= 8 * d["PDOP"].den

\* the published location of the dict d: its latitude and longitude, if any
Location(d) == [k \in DOMAIN d \cap {"latitude", "longitude"} |-> d[k]]

\* this step notified the listeners of the coordinator
Notified == Emission \/ async_update_friendly_name

\* C32: PDOP gating of the published location.  On a coordinator update the
\* tracker of a node sets latitude and longitude to latitude_i / 1e7 and
\* longitude_i / 1e7 if and only if both are present and the PDOP is absent or
\* within [pdop_min_threshold, pdop_max_threshold]; otherwise the latitude and
\* longitude published before are left as they are.
C32_PdopGating ==
    [][Notified =>
        \A n \in entities \cap DOMAIN latest :
            IF LocationAccepted(latest[n])
            THEN Location(latest'[n])
                   = [latitude |-> Rat(latest[n]["latitude_i"], 10000000),
                      longitude |-> Rat(latest[n]["longitude_i"], 10000000)]
            ELSE Location(latest'[n]) = Location(latest[n])]_vars

\* a snapshot was emitted while the node's PDOP is 29.7: the tracker kept the
\* location restored before, beside the coordinates of the new position
C32_Witness ==
    /\ since_queue = 1
    /\ snapshot.some
    /\ FormatNodeId(NodeA) \in entities
    /\ FormatNodeId(NodeA) \in DOMAIN latest
    /\ {"PDOP", "latitude_i", "latitude"} \subseteq DOMAIN latest[FormatNodeId(NodeA)]
    /\ latest[FormatNodeId(NodeA)]["PDOP"] = Rat(297, 10)
    /\ latest[FormatNodeId(NodeA)]["latitude_i"] = 426977000
    /\ latest[FormatNodeId(NodeA)]["latitude"] = Rat(427, 10)

====
